---- MODULE Spec2Model ----
(***************************************************************************)
(* Ledger and container-packing engine of the quality-control system       *)
(* (src/tests/v014-beta.py and its rewrite src/tests/v0142-beta.py).       *)
(*                                                                         *)
(* The two rewrites share Peca, Caixa and BancoDados.adicionar_peca /      *)
(* remover_peca / carregar_dados / salvar_dados line for line.  They       *)
(* differ in two places, selected by the variable versao that is fixed     *)
(* for a whole run:                                                        *)
(*   v014  : no editar_peca; the capacity is updated in place in db.config *)
(*   v0142 : editar_peca exists; a capacity update writes config.json and  *)
(*           re-executes the process, which rebuilds BancoDados from disk  *)
(*                                                                         *)
(* Strings that the code normalises (part IDs, colours) are sequences of   *)
(* one-character strings so that upper()/lower()/strip() are computed.     *)
(* A container member is represented by the id_peca of the Peca object it  *)
(* holds: the code reads members only through id_peca and len().           *)
(***************************************************************************)
EXTENDS Integers, Sequences, FiniteSets, TLC

\* ------------------------------------------------------------------ bounds
NumIds == 2            \* distinct part IDs offered to the operations
MaxCapacidade == 2     \* largest capacity an administrator configures
MaxRelogio == 1        \* last clock reading told apart (whole seconds)
MaxFechadas == 2       \* containers archived before the run is cut off
MaxLote == 3           \* distinct part IDs of a run that only records parts
MaxAuditoria == 4      \* audit entries written before the run is cut off
MaxOperacoes == 3      \* operations of a run that follows each step of a save

\* --------------------------------------------------------- string helpers
Digitos == <<"1", "2", "3", "4", "5">>

CharUpper(ch) ==
    CASE ch = "p" -> "P"
      [] ch = "a" -> "A"
      [] ch = "z" -> "Z"
      [] ch = "u" -> "U"
      [] ch = "l" -> "L"
      [] ch = "r" -> "R"
      [] ch = "o" -> "O"
      [] ch = "x" -> "X"
      [] OTHER -> ch

CharLower(ch) ==
    CASE ch = "P" -> "p"
      [] ch = "A" -> "a"
      [] ch = "Z" -> "z"
      [] ch = "U" -> "u"
      [] ch = "L" -> "l"
      [] ch = "R" -> "r"
      [] ch = "O" -> "o"
      [] ch = "X" -> "x"
      [] OTHER -> ch

StrUpper(s) == [i \in 1..Len(s) |-> CharUpper(s[i])]
StrLower(s) == [i \in 1..Len(s) |-> CharLower(s[i])]

RECURSIVE LStrip(_)
LStrip(s) == IF s # <<>> /\ Head(s) = " " THEN LStrip(Tail(s)) ELSE s

RECURSIVE RStrip(_)
RStrip(s) == IF s # <<>> /\ s[Len(s)] = " " THEN RStrip(SubSeq(s, 1, Len(s) - 1)) ELSE s

Strip(s) == RStrip(LStrip(s))

\* id_peca.upper().strip()
NormalizarId(s) == Strip(StrUpper(s))

\* cor.lower().strip()
NormalizarCor(s) == Strip(StrLower(s))

\* --------------------------------------------------------------- inputs
\* IDs as typed by a caller: in lower case, and the first one also in upper
\* case with a trailing blank
IdsBrutos ==
    { <<"p", Digitos[n]>> : n \in 1..NumIds } \cup { <<"P", Digitos[1], " ">> }

Azul == <<"a", "z", "u", "l">>
Verde == <<"v", "e", "r", "d", "e">>
Roxo == <<"r", "o", "x", "o">>

CoresBrutas == { <<"A", "z", "u", "l">> }
Pesos == {100, 120}
Comprimentos == {15}
Usuarios == {"ana"}

\* capacities an administrator may type, int(entry_capacidade.get()): the
\* positive ones and a negative one
Capacidades == {-1} \cup 1..MaxCapacidade

None == 0
\* a file that does not exist, a file holding a JSON document, and a file
\* json.load cannot parse (cut short, or not JSON)
Ausente == [existe |-> FALSE]
Arquivo(doc) == [existe |-> TRUE, integro |-> TRUE, doc |-> doc]
Truncado == [existe |-> TRUE, integro |-> FALSE]

\* registrar_auditoria keeps auditoria[-1000:]
LimiteAuditoria == 1000

\* CONFIG_PADRAO['criterios_qualidade']
CriteriosPadrao ==
    [ peso_min |-> 95, peso_max |-> 105,
      cores_aceitas |-> {Azul, Verde},
      comprimento_min |-> 10, comprimento_max |-> 20 ]

VARIABLES
    versao,            \* which rewrite runs: "v014" or "v0142"
    config,            \* db.config (equal to config.json between operations)
    pecas_aprovadas,   \* BancoDados.pecas_aprovadas
    pecas_reprovadas,  \* BancoDados.pecas_reprovadas
    caixas_fechadas,   \* BancoDados.caixas_fechadas
    caixa_atual,       \* BancoDados.caixa_atual
    arquivo_pecas,     \* pecas.json, or Ausente
    arquivo_caixas,    \* caixas.json, or Ausente
    relogio,           \* datetime.now(), in whole seconds
    backups,           \* BACKUP_DIR: the pair of copies named by each second
    auditoria,         \* auditoria.json (v014 only)
    ensaio,            \* a Peca on its own with the criteria it is validated by
    gravacao,          \* where the operation in progress stands in its save
    copia,             \* where the backup thread stands in its fazer_backup
    persistidos,       \* the pairs of documents salvar_dados finished writing
    criterios_qualidade, \* the 'criterios_qualidade' of the config that salvar_criterios writes
    criterios_banco,   \* the 'criterios_qualidade' of BancoDados.config, read by adicionar_peca
    janelas,           \* the TelaPrincipal objects built in this run, with their timers
    usuarios,          \* SistemaAutenticacao.usuarios
    arquivo_usuarios,  \* usuarios.json
    sessao,            \* who is logged in, with which profile, on which screen
    logs,              \* the AUTH, ADMIN and SISTEMA lines of the day's log file
    resposta           \* what the last call of a session or accounts handler returned

\* what the ledger operations leave alone
\* the accounts, the session and the saved criteria
contas == << criterios_qualidade, criterios_banco, janelas, usuarios,
             arquivo_usuarios, sessao, logs,
             resposta >>

outras == << ensaio, gravacao, copia, persistidos, contas >>

vars == << versao, config, pecas_aprovadas, pecas_reprovadas, caixas_fechadas,
           caixa_atual, arquivo_pecas, arquivo_caixas, relogio, backups,
           auditoria, ensaio, gravacao, copia, persistidos,
           criterios_qualidade, criterios_banco, janelas, usuarios,
           arquivo_usuarios, sessao, logs, resposta >>

\* ------------------------------------------------- ConfiguracaoSistema
\* an audit entry's 'detalhes': f"ID: {id} - {nota}", or a fixed text
Detalhes(texto, id, nota) == [texto |-> texto, id |-> id, nota |-> nota]

\* an append that cuts the list at its end instead of its start
registrar_auditoria_primeiros(aud, usuario, acao, detalhes, agora) ==
    LET a == Append(aud, [ timestamp |-> agora, usuario |-> usuario,
                           acao |-> acao, detalhes |-> detalhes ])
    IN  IF Len(a) > LimiteAuditoria THEN SubSeq(a, 1, LimiteAuditoria) ELSE a

\* ConfiguracaoSistema.registrar_auditoria: auditoria.json after the call
registrar_auditoria(aud, usuario, acao, detalhes, agora) ==
    LET a == Append(aud, [ timestamp |-> agora, usuario |-> usuario,
                           acao |-> acao, detalhes |-> detalhes ])
    IN  IF Len(a) > LimiteAuditoria
        THEN SubSeq(a, Len(a) - LimiteAuditoria + 1, Len(a)) ELSE a

\* ------------------------------------------------------------------ Peca
\* Peca.__init__
NovaPeca(id_bruto, peso, cor_bruta, comprimento, usuario) ==
    [ id_peca |-> NormalizarId(id_bruto),
      peso |-> peso,
      cor |-> NormalizarCor(cor_bruta),
      comprimento |-> comprimento,
      usuario |-> usuario,
      aprovada |-> FALSE,
      motivos_reprovacao |-> <<>> ]

\* validar stopping at the first check that fails
validar_curto(p, criterios) ==
    LET motivos ==
            IF ~(criterios.peso_min <= p.peso /\ p.peso <= criterios.peso_max)
            THEN <<"Peso">>
            ELSE IF p.cor \notin criterios.cores_aceitas THEN <<"Cor">>
            ELSE IF ~(criterios.comprimento_min <= p.comprimento
                      /\ p.comprimento <= criterios.comprimento_max)
            THEN <<"Comprimento">> ELSE <<>>
    IN  [p EXCEPT !.motivos_reprovacao = motivos, !.aprovada = (Len(motivos) = 0)]

\* Peca.validar
validar(p, criterios) ==
    LET m1 == IF ~(criterios.peso_min <= p.peso /\ p.peso <= criterios.peso_max)
              THEN <<"Peso">> ELSE <<>>
        m2 == IF p.cor \notin criterios.cores_aceitas
              THEN <<"Cor">> ELSE <<>>
        m3 == IF ~(criterios.comprimento_min <= p.comprimento
                   /\ p.comprimento <= criterios.comprimento_max)
              THEN <<"Comprimento">> ELSE <<>>
        motivos == m1 \o m2 \o m3
    IN  [p EXCEPT !.motivos_reprovacao = motivos, !.aprovada = (Len(motivos) = 0)]

\* a new container that always takes number 1
NovaCaixaPrimeira(numero, capacidade) ==
    [ numero |-> 1,
      capacidade |-> capacidade,
      pecas |-> <<>>,
      data_fechamento |-> None,
      usuario_fechamento |-> "" ]

\* ----------------------------------------------------------------- Caixa
\* Caixa.__init__
NovaCaixa(numero, capacidade) ==
    [ numero |-> numero,
      capacidade |-> capacidade,
      pecas |-> <<>>,
      data_fechamento |-> None,
      usuario_fechamento |-> "" ]

\* Caixa.fechar
fechar(c, usuario, agora) ==
    [c EXCEPT !.data_fechamento = agora, !.usuario_fechamento = usuario]

\* esta_cheia with > in place of >=
esta_cheia_maior(c) == Len(c.pecas) > c.capacidade

\* Caixa.esta_cheia
esta_cheia(c) == Len(c.pecas) >= c.capacidade

\* Caixa.vagas_disponiveis
vagas_disponiveis(c) ==
    IF c.capacidade - Len(c.pecas) > 0 THEN c.capacidade - Len(c.pecas) ELSE 0

\* Caixa.adicionar_peca: the container after the call and the value returned
Caixa_adicionar_peca(c, p, agora) ==
    IF Len(c.pecas) < c.capacidade
    THEN LET c1 == [c EXCEPT !.pecas = Append(c.pecas, p.id_peca)]
         IN  [ caixa |-> IF Len(c1.pecas) >= c1.capacidade
                         THEN fechar(c1, p.usuario, agora) ELSE c1,
               ok |-> TRUE ]
    ELSE [ caixa |-> c, ok |-> FALSE ]

\* ------------------------------------------------------------ BancoDados
\* first index of seq whose element satisfies the id test, 0 when none
IndicePeca(seq, id) ==
    IF \E i \in 1..Len(seq) : seq[i].id_peca = id
    THEN CHOOSE i \in 1..Len(seq) :
            /\ seq[i].id_peca = id
            /\ \A j \in 1..(i - 1) : seq[j].id_peca # id
    ELSE 0

IndiceId(seq, id) ==
    IF \E i \in 1..Len(seq) : seq[i] = id
    THEN CHOOSE i \in 1..Len(seq) :
            /\ seq[i] = id
            /\ \A j \in 1..(i - 1) : seq[j] # id
    ELSE 0

\* del seq[i]
Apagar(seq, i) == SubSeq(seq, 1, i - 1) \o SubSeq(seq, i + 1, Len(seq))

\* RemoverDaCaixa leaving the container as it is
ManterNaCaixa(c, id) == c

\* the loop "for p_caixa in caixa.pecas: if p_caixa.id_peca == id: del ...; break"
RemoverDaCaixa(c, id) ==
    IF IndiceId(c.pecas, id) = 0 THEN c
    ELSE [c EXCEPT !.pecas = Apagar(c.pecas, IndiceId(c.pecas, id))]

\* Peca.to_dict
Peca_to_dict(p) ==
    [ id |-> p.id_peca, peso |-> p.peso, cor |-> p.cor,
      comprimento |-> p.comprimento, usuario |-> p.usuario,
      aprovada |-> p.aprovada, motivos_reprovacao |-> p.motivos_reprovacao ]

\* Caixa.to_dict raises ZeroDivisionError on len(pecas) / capacidade
Caixa_to_dict_falha(c) == c.capacidade = 0

\* Caixa.to_dict
Caixa_to_dict(c) ==
    [ numero |-> c.numero,
      capacidade |-> c.capacidade,
      pecas |-> [k \in 1..Len(c.pecas) |-> [id |-> c.pecas[k]]],
      data_fechamento |-> c.data_fechamento,
      usuario_fechamento |-> c.usuario_fechamento,
      quantidade_pecas |-> Len(c.pecas) ]

\* the in-memory ledger as one value
BD(ap, rp, cf, ca) ==
    [ pecas_aprovadas |-> ap, pecas_reprovadas |-> rp,
      caixas_fechadas |-> cf, caixa_atual |-> ca ]

BDAtual == BD(pecas_aprovadas, pecas_reprovadas, caixas_fechadas, caixa_atual)

\* BancoDados.fazer_backup with auto_backup at its default True: BACKUP_DIR
\* after the call.  A copy is named by the second it is made in, so a later
\* copy of the same second replaces it; a document that does not exist is
\* not copied.
copiar_pecas(bk, arq_pecas, nome) ==
    [bk EXCEPT ![nome].pecas = IF arq_pecas.existe THEN arq_pecas ELSE @]

copiar_caixas(bk, arq_caixas, nome) ==
    [bk EXCEPT ![nome].caixas = IF arq_caixas.existe THEN arq_caixas ELSE @]

fazer_backup(bk, arq_pecas, arq_caixas, agora) ==
    copiar_caixas(copiar_pecas(bk, arq_pecas, agora), arq_caixas, agora)

\* BancoDados.salvar_dados after its backup: the two documents after the call.  pecas.json is
\* written first; building the containers document raises when a to_dict
\* divides by zero, and then caixas.json is left as it was.
salvar_dados(bd, arq_pecas, arq_caixas) ==
    LET doc_pecas ==
            [ aprovadas |-> [i \in 1..Len(bd.pecas_aprovadas) |->
                                Peca_to_dict(bd.pecas_aprovadas[i])],
              reprovadas |-> [i \in 1..Len(bd.pecas_reprovadas) |->
                                Peca_to_dict(bd.pecas_reprovadas[i])] ]
        falha ==
            \/ \E i \in 1..Len(bd.caixas_fechadas) :
                    Caixa_to_dict_falha(bd.caixas_fechadas[i])
            \/ Caixa_to_dict_falha(bd.caixa_atual)
        doc_caixas ==
            [ fechadas |-> [i \in 1..Len(bd.caixas_fechadas) |->
                                Caixa_to_dict(bd.caixas_fechadas[i])],
              atual |-> Caixa_to_dict(bd.caixa_atual) ]
    IN  [ arquivo_pecas |-> Arquivo(doc_pecas),
          arquivo_caixas |-> IF falha THEN arq_caixas ELSE Arquivo(doc_caixas),
          ok |-> ~falha ]

\* id_existe looking at the approved list only
id_existe_so_aprovadas(bd, id) == IndicePeca(bd.pecas_aprovadas, id) # 0

\* id_existe looking at the rejected list only
id_existe_so_reprovadas(bd, id) == IndicePeca(bd.pecas_reprovadas, id) # 0

\* "for p in self.pecas_aprovadas + self.pecas_reprovadas: if p.id_peca == ..."
id_existe(bd, id) ==
    IndicePeca(bd.pecas_aprovadas \o bd.pecas_reprovadas, id) # 0

\* BancoDados.adicionar_peca, from the duplicate test to the second roll-over:
\* the ledger after the call and the value returned; criterios is what
\* self.config.get('criterios_qualidade', ...) gives
adicionar_peca(bd, peca, capacidade, agora, criterios) ==
    IF id_existe(bd, peca.id_peca)
    THEN [ bd |-> bd, ok |-> FALSE, salvar |-> FALSE, peca |-> peca,
           msg |-> "ja existe" ]
    ELSE
      LET p == validar(peca, criterios) IN
      IF p.aprovada
      THEN
        LET ap == Append(bd.pecas_aprovadas, p)
            r1 == Caixa_adicionar_peca(bd.caixa_atual, p, agora)
            \* caixa_atual refused the part: archive it and open a new one
            cf1 == IF r1.ok THEN bd.caixas_fechadas
                   ELSE Append(bd.caixas_fechadas, bd.caixa_atual)
            ca1 == IF r1.ok THEN r1.caixa
                   ELSE Caixa_adicionar_peca(
                            NovaCaixa(Len(cf1) + 1, capacidade), p, agora).caixa
            \* "if self.caixa_atual.esta_cheia()"
            cf2 == IF esta_cheia(ca1) THEN Append(cf1, ca1) ELSE cf1
            ca2 == IF esta_cheia(ca1) THEN NovaCaixa(Len(cf2) + 1, capacidade) ELSE ca1
        IN  [ bd |-> BD(ap, bd.pecas_reprovadas, cf2, ca2),
              ok |-> TRUE, salvar |-> TRUE, peca |-> p, msg |-> "adicionada" ]
      ELSE [ bd |-> BD(bd.pecas_aprovadas, Append(bd.pecas_reprovadas, p),
                       bd.caixas_fechadas, bd.caixa_atual),
             ok |-> TRUE, salvar |-> TRUE, peca |-> p, msg |-> "adicionada" ]

\* remover_peca saving although it found nothing
remover_peca_grava(bd, id_bruto) ==
    [ bd |-> bd, ok |-> FALSE, salvar |-> TRUE, msg |-> "nao encontrada" ]

\* BancoDados.remover_peca
remover_peca(bd, id_bruto) ==
    LET id == NormalizarId(id_bruto)
        i == IndicePeca(bd.pecas_aprovadas, id)
        j == IndicePeca(bd.pecas_reprovadas, id)
    IN  IF i # 0
        THEN [ bd |-> BD(Apagar(bd.pecas_aprovadas, i), bd.pecas_reprovadas,
                         bd.caixas_fechadas, RemoverDaCaixa(bd.caixa_atual, id)),
               ok |-> TRUE, salvar |-> TRUE, msg |-> "removida" ]
        ELSE IF j # 0
        THEN [ bd |-> BD(bd.pecas_aprovadas, Apagar(bd.pecas_reprovadas, j),
                         bd.caixas_fechadas, bd.caixa_atual),
               ok |-> TRUE, salvar |-> TRUE, msg |-> "removida" ]
        ELSE [ bd |-> bd, ok |-> FALSE, salvar |-> FALSE, msg |-> "nao encontrada" ]

\* BancoDados.editar_peca (v0142 only)
editar_peca(bd, id_bruto, novo_peso, nova_cor, novo_comprimento, agora, criterios) ==
    LET id == NormalizarId(id_bruto)
        i == IndicePeca(bd.pecas_aprovadas, id)
        j == IndicePeca(bd.pecas_reprovadas, id)
        editada(p) == validar([p EXCEPT !.peso = novo_peso,
                                        !.cor = StrLower(nova_cor),
                                        !.comprimento = novo_comprimento],
                              criterios)
    IN  IF i # 0
        THEN LET p == editada(bd.pecas_aprovadas[i]) IN
             IF ~p.aprovada
             THEN [ bd |-> BD(Apagar(bd.pecas_aprovadas, i),
                              Append(bd.pecas_reprovadas, p),
                              bd.caixas_fechadas,
                              RemoverDaCaixa(bd.caixa_atual, id)),
                    ok |-> TRUE, salvar |-> TRUE, msg |-> "editada" ]
             ELSE [ bd |-> BD([bd.pecas_aprovadas EXCEPT ![i] = p],
                              bd.pecas_reprovadas, bd.caixas_fechadas, bd.caixa_atual),
                    ok |-> TRUE, salvar |-> TRUE, msg |-> "editada" ]
        ELSE IF j # 0
        THEN LET p == editada(bd.pecas_reprovadas[j]) IN
             IF p.aprovada
             THEN [ bd |-> BD(Append(bd.pecas_aprovadas, p),
                              Apagar(bd.pecas_reprovadas, j),
                              bd.caixas_fechadas,
                              Caixa_adicionar_peca(bd.caixa_atual, p, agora).caixa),
                    ok |-> TRUE, salvar |-> TRUE, msg |-> "editada" ]
             ELSE [ bd |-> BD(bd.pecas_aprovadas,
                              [bd.pecas_reprovadas EXCEPT ![j] = p],
                              bd.caixas_fechadas, bd.caixa_atual),
                    ok |-> TRUE, salvar |-> TRUE, msg |-> "editada" ]
        ELSE [ bd |-> bd, ok |-> FALSE, salvar |-> FALSE, msg |-> "nao encontrada" ]

\* json.load(f) succeeds on the file
Legivel(arq) == arq.existe /\ arq.integro

\* p_dict['id'] and c_dict['numero'] raise KeyError on a record without the key
PecaLegivel(d) == "id" \in DOMAIN d
CaixaLegivel(d) ==
    /\ "numero" \in DOMAIN d
    /\ \A k \in 1..Len(d.pecas) : PecaLegivel(d.pecas[k])

\* the positions of the records of a list that raise when loaded
PecasMas(seq) == { i \in 1..Len(seq) : ~PecaLegivel(seq[i]) }
CaixasMas(seq) == { i \in 1..Len(seq) : ~CaixaLegivel(seq[i]) }

\* the records a loading loop appends before the first one that raises
Prefixo(seq, maus) ==
    LET n == IF maus = {} THEN Len(seq)
             ELSE (CHOOSE i \in maus : \A k \in maus : i <= k) - 1
    IN  SubSeq(seq, 1, n)

\* the Peca object carregar_dados rebuilds from a record of a document
CarregarPeca(d, com_motivos) ==
    [ NovaPeca(d.id, d.peso, d.cor, d.comprimento, d.usuario)
        EXCEPT !.aprovada = d.aprovada,
               !.motivos_reprovacao = IF com_motivos THEN d.motivos_reprovacao ELSE <<>> ]

\* the closed container carregar_dados rebuilds from a 'fechadas' entry
CarregarCaixaFechada(d) ==
    [ NovaCaixa(d.numero, d.capacidade)
        EXCEPT !.data_fechamento = d.data_fechamento,
               !.usuario_fechamento = d.usuario_fechamento,
               !.pecas = [k \in 1..Len(d.pecas) |-> NormalizarId(d.pecas[k].id)] ]

\* the current container carregar_dados rebuilds from 'atual': the closing
\* stamp of the document is not read back; the loop over its parts stops at
\* a record that raises
CarregarCaixaAtual(d) ==
    LET ps == Prefixo(d.pecas, PecasMas(d.pecas))
    IN  [ NovaCaixa(d.numero, d.capacidade)
            EXCEPT !.pecas = [k \in 1..Len(ps) |-> NormalizarId(ps[k].id)] ]

\* BancoDados.__init__ followed by carregar_dados.  Each document is read
\* inside its own try: an exception ends the reading of that document and
\* keeps what was loaded from it so far.
carregar_dados(arq_pecas, arq_caixas, capacidade) ==
    LET da == IF Legivel(arq_pecas) THEN arq_pecas.doc.aprovadas ELSE <<>>
        dr == IF Legivel(arq_pecas) THEN arq_pecas.doc.reprovadas ELSE <<>>
        pa == Prefixo(da, PecasMas(da))
        pr == IF Len(pa) < Len(da) THEN <<>> ELSE Prefixo(dr, PecasMas(dr))
        ap == [i \in 1..Len(pa) |-> CarregarPeca(pa[i], FALSE)]
        rp == [i \in 1..Len(pr) |-> CarregarPeca(pr[i], TRUE)]
        df == IF Legivel(arq_caixas) THEN arq_caixas.doc.fechadas ELSE <<>>
        pf == Prefixo(df, CaixasMas(df))
        cf == [i \in 1..Len(pf) |-> CarregarCaixaFechada(pf[i])]
        ca == IF ~Legivel(arq_caixas) \/ Len(pf) < Len(df)
              THEN NovaCaixa(1, capacidade)
              ELSE CarregarCaixaAtual(arq_caixas.doc.atual)
    IN  BD(ap, rp, cf, ca)

\* -------------------------------------------------- SistemaAutenticacao
\* user names and passwords as typed, character by character
Admin == <<"a", "d", "m", "i", "n">>
Ana == <<"a", "n", "a">>
Bia == <<"b", "i", "a">>
SenhaCurta == <<"a", "b", "c">>
SenhaBoa == <<"a", "b", "c", "d">>

\* bcrypt.gensalt() draws the salt; bcrypt.hashpw keeps it in the hash, and
\* bcrypt.checkpw hashes the offered password with the salt of the stored hash
Sais == {1}
hashpw(senha, sal) == [sal |-> sal, resumo |-> senha]
checkpw(senha, senha_hash) == hashpw(senha, senha_hash.sal) = senha_hash

\* a dict without a key, and with a key set
SemChaveDe(d, chave) == [c \in DOMAIN d \ {chave} |-> d[c]]
ComChave(d, chave, valor) ==
    [c \in DOMAIN d \cup {chave} |-> IF c = chave THEN valor ELSE d[c]]

\* a record of usuarios.json
NovoUsuario(senha_hash, nome_completo, nivel, agora) ==
    [ senha |-> senha_hash, nome_completo |-> nome_completo, nivel |-> nivel,
      data_criacao |-> agora, ultimo_login |-> None, ativo |-> TRUE ]

\* SistemaAutenticacao.criar_usuario_padrao: admin/admin
criar_usuario_padrao(sal, agora) ==
    ComChave(<<>>, Admin,
             NovoUsuario(hashpw(Admin, sal), "Administrador do Sistema",
                         "administrador", agora))

\* a line of the log file
Linha(tipo, mensagem, usuario) ==
    [tipo |-> tipo, mensagem |-> mensagem, usuario |-> usuario]

\* what a method of SistemaAutenticacao leaves and returns: the store, whether
\* salvar_usuarios ran, the log lines written, the audit entries (acao,
\* detalhes) the method itself records, and the returned pair
Retorno(us, salvar, linhas, auditar, ok, valor) ==
    [ usuarios |-> us, salvar |-> salvar, linhas |-> linhas,
      auditar |-> auditar, ok |-> ok, valor |-> valor ]

\* no profile is returned
SemPerfil == [nivel |-> "", nome_completo |-> "", ativo |-> FALSE]

\* the profile autenticar hands to the session
Perfil(u) == [nivel |-> u.nivel, nome_completo |-> u.nome_completo, ativo |-> u.ativo]

\* an authentication that does not look at 'ativo'
autenticar_sem_ativo(v, us, usuario, senha, agora) ==
    IF usuario \in DOMAIN us /\ checkpw(senha, us[usuario].senha)
    THEN LET novo == [us EXCEPT ![usuario].ultimo_login = agora]
         IN  Retorno(novo, TRUE, << Linha("AUTH", "Login", usuario) >>,
                     IF v = "v014" THEN << << "LOGIN", "Login bem-sucedido" >> >> ELSE <<>>,
                     TRUE, Perfil(novo[usuario]))
    ELSE Retorno(us, FALSE, << Linha("AUTH", "Login falhou", usuario) >>,
                 <<>>, FALSE, SemPerfil)

\* SistemaAutenticacao.autenticar
autenticar(v, us, usuario, senha, agora) ==
    LET falhou == Retorno(us, FALSE,
                          << Linha("AUTH", "Login falhou", usuario) >>,
                          <<>>, FALSE, SemPerfil)
    IN  IF usuario \in DOMAIN us
        THEN IF ~us[usuario].ativo
             THEN Retorno(us, FALSE,
                          IF v = "v014" THEN <<>>
                          ELSE << Linha("AUTH", "Login com usuario inativo", usuario) >>,
                          <<>>, FALSE, SemPerfil)
             ELSE IF checkpw(senha, us[usuario].senha)
                  THEN LET novo == [us EXCEPT ![usuario].ultimo_login = agora]
                       IN  Retorno(novo, TRUE,
                                   << Linha("AUTH", "Login", usuario) >>,
                                   IF v = "v014"
                                   THEN << << "LOGIN", "Login bem-sucedido" >> >>
                                   ELSE <<>>,
                                   TRUE, Perfil(novo[usuario]))
                  ELSE falhou
        ELSE falhou

\* a creation that does not look for the name in the store
criar_usuario_sobrescreve(v, us, usuario, senha, nome_completo, nivel, sal, agora) ==
    IF Len(senha) < 4
    THEN Retorno(us, FALSE, <<>>, <<>>, FALSE, "senha curta")
    ELSE Retorno(ComChave(us, usuario,
                          NovoUsuario(hashpw(senha, sal), nome_completo, nivel, agora)),
                 TRUE, << Linha("ADMIN", "Usuario criado", usuario) >>, <<>>,
                 TRUE, "criado")

\* the levels criar_usuario accepts
NiveisAceitos(v) ==
    IF v = "v014" THEN {"administrador", "supervisor", "operador"}
    ELSE {"administrador", "operador"}

\* SistemaAutenticacao.criar_usuario
criar_usuario(v, us, usuario, senha, nome_completo, nivel, sal, agora) ==
    IF usuario \in DOMAIN us
    THEN Retorno(us, FALSE, <<>>, <<>>, FALSE, "ja existe")
    ELSE IF Len(senha) < 4
    THEN Retorno(us, FALSE, <<>>, <<>>, FALSE, "senha curta")
    ELSE IF nivel \notin NiveisAceitos(v)
    THEN Retorno(us, FALSE, <<>>, <<>>, FALSE, "nivel invalido")
    ELSE Retorno(ComChave(us, usuario,
                          NovoUsuario(hashpw(senha, sal), nome_completo, nivel, agora)),
                 TRUE, << Linha("ADMIN", "Usuario criado", usuario) >>, <<>>,
                 TRUE, "criado")

\* v014 SistemaAutenticacao.atualizar_usuario: dados holds nome_completo,
\* nivel and ativo, and senha when one was typed
atualizar_usuario(us, usuario, nome_completo, nivel, ativo, senha, sal) ==
    IF usuario \notin DOMAIN us
    THEN Retorno(us, FALSE, <<>>, <<>>, FALSE, "nao encontrado")
    ELSE IF senha # <<>> /\ Len(senha) < 4
    THEN Retorno(us, FALSE, <<>>, <<>>, FALSE, "senha curta")
    ELSE Retorno([us EXCEPT ![usuario].nome_completo = nome_completo,
                            ![usuario].nivel = nivel,
                            ![usuario].ativo = ativo,
                            ![usuario].senha =
                                IF senha # <<>> THEN hashpw(senha, sal) ELSE @],
                 TRUE, <<>>, <<>>, TRUE, "atualizado")

\* v014 SistemaAutenticacao.deletar_usuario
deletar_usuario(us, usuario) ==
    IF usuario = Admin
    THEN Retorno(us, FALSE, <<>>, <<>>, FALSE, "admin")
    ELSE IF usuario \in DOMAIN us
    THEN Retorno(SemChaveDe(us, usuario), TRUE, <<>>, <<>>, TRUE, "deletado")
    ELSE Retorno(us, FALSE, <<>>, <<>>, FALSE, "nao encontrado")

\* v0142 SistemaAutenticacao.editar_usuario: under a new name the record is
\* deleted first, so its data_criacao and ultimo_login are not found again
editar_usuario(us, usuario_antigo, usuario_novo, nome_completo, nivel, ativo, agora) ==
    IF usuario_antigo \notin DOMAIN us
    THEN Retorno(us, FALSE, <<>>, <<>>, FALSE, "nao encontrado")
    ELSE IF usuario_antigo # usuario_novo /\ usuario_novo \in DOMAIN us
    THEN Retorno(us, FALSE, <<>>, <<>>, FALSE, "ja existe")
    ELSE LET renomeia == usuario_antigo # usuario_novo
             resto == IF renomeia THEN SemChaveDe(us, usuario_antigo) ELSE us
             novo == [ senha |-> us[usuario_antigo].senha,
                       nome_completo |-> nome_completo,
                       nivel |-> nivel,
                       data_criacao |-> IF renomeia THEN agora
                                        ELSE us[usuario_antigo].data_criacao,
                       ultimo_login |-> IF renomeia THEN None
                                        ELSE us[usuario_antigo].ultimo_login,
                       ativo |-> ativo ]
         IN  Retorno(ComChave(resto, usuario_novo, novo), TRUE,
                     << Linha("ADMIN", "Usuario editado", usuario_antigo) >>,
                     <<>>, TRUE, "editado")

\* v0142 SistemaAutenticacao.redefinir_senha
redefinir_senha(us, usuario, nova_senha, sal) ==
    IF usuario \notin DOMAIN us
    THEN Retorno(us, FALSE, <<>>, <<>>, FALSE, "nao encontrado")
    ELSE IF Len(nova_senha) < 4
    THEN Retorno(us, FALSE, <<>>, <<>>, FALSE, "senha curta")
    ELSE Retorno([us EXCEPT ![usuario].senha = hashpw(nova_senha, sal)], TRUE,
                 << Linha("ADMIN", "Senha redefinida", usuario) >>, <<>>,
                 TRUE, "redefinida")

\* v0142 SistemaAutenticacao.excluir_usuario
excluir_usuario(us, usuario) ==
    IF usuario \notin DOMAIN us
    THEN Retorno(us, FALSE, <<>>, <<>>, FALSE, "nao encontrado")
    ELSE IF usuario = Admin
    THEN Retorno(us, FALSE, <<>>, <<>>, FALSE, "admin")
    ELSE Retorno(SemChaveDe(us, usuario), TRUE,
                 << Linha("ADMIN", "Usuario excluido", usuario) >>, <<>>,
                 TRUE, "excluido")

\* requer_permissao: niveis.get(nivel, 0) of the session's level against that
\* of the level the decorated screen asks for
Niveis(nivel) ==
    CASE nivel = "operador" -> 0
      [] nivel = "supervisor" -> 1
      [] nivel = "administrador" -> 2
      [] OTHER -> 0

\* a check that admits only the level asked for
requer_permissao_igual(nivel_usuario, nivel_minimo) ==
    Niveis(nivel_usuario) = Niveis(nivel_minimo)

requer_permissao(nivel_usuario, nivel_minimo) ==
    Niveis(nivel_usuario) >= Niveis(nivel_minimo)

\* a denial that is recorded twice
acesso_negado_duplo(aud, usuario, tela, agora) ==
    LET entrada == [ timestamp |-> agora, usuario |-> usuario, acao |-> "ACESSO_NEGADO",
                     detalhes |-> Detalhes("Tentativa de acessar", <<>>, tela) ]
    IN  aud \o << entrada, entrada >>

\* the wrapper's refusal: auditoria.json after "ACESSO_NEGADO" is recorded
acesso_negado(aud, usuario, tela, agora) ==
    registrar_auditoria(aud, usuario, "ACESSO_NEGADO",
                        Detalhes("Tentativa de acessar", <<>>, tela), agora)

\* ---------------------------------------------------------------- actions
Versoes == {"v014", "v0142"}

\* BACKUP_DIR with no copy in it
SemBackups == [t \in 1..MaxRelogio |-> [pecas |-> Ausente, caixas |-> Ausente]]

\* no part is being validated on its own
\* no operation in progress, the last one of ordem so far having returned
\* retorno ("ok", "falhou", or "nenhum" before the first one)
Ociosa(retorno, ordem) ==
    [ etapa |-> "ocioso", retorno |-> retorno, ordem |-> ordem,
      antes |-> << Ausente, Ausente >>,
      memoria_antes |-> BD(<<>>, <<>>, <<>>, NovaCaixa(1, 1)),
      agora |-> 1,
      registro |-> [usuario |-> "", acao |-> "", detalhes |-> Detalhes("", <<>>, "")] ]

\* the backup thread between two runs of fazer_backup
Espera == [etapa |-> "espera", nome |-> 1]

\* nobody is logged in: the login screen is up
SemSessao ==
    [ativa |-> FALSE, usuario |-> <<>>, info_usuario |-> SemPerfil, tela |-> "login"]

\* no handler of the accounts, the session or the settings has run yet
\* what a handler was given: the fields of its form that the claims look at
Args(usuario, usuario_novo, senha, nivel, tela) ==
    [ usuario |-> usuario, usuario_novo |-> usuario_novo, senha |-> senha,
      nivel |-> nivel, tela |-> tela ]
SemArgs == Args(<<>>, <<>>, <<>>, "", "")

SemResposta ==
    [ op |-> "", args |-> SemArgs, ok |-> FALSE, valor |-> "", perfil |-> SemPerfil,
      ordem |-> 0 ]

\* the first start: SistemaAutenticacao() finds no usuarios.json, creates
\* admin/admin and saves it; the settings are CONFIG_PADRAO
ContasIniciais ==
    /\ criterios_qualidade = CriteriosPadrao
    /\ criterios_banco = CriteriosPadrao
    /\ janelas = <<>>
    /\ \E sal \in Sais : usuarios = criar_usuario_padrao(sal, 1)
    /\ arquivo_usuarios = usuarios
    /\ sessao = SemSessao
    /\ logs = << Linha("SISTEMA", "Usuario admin criado", Admin) >>
    /\ resposta = SemResposta

SemEnsaio == [validada |-> FALSE, peca |-> NovaPeca(<<>>, 0, <<>>, 0, ""),
              criterios |-> CriteriosPadrao]

\* a fresh installation whose configured capacity is c, before the first save
InicioLivro ==
    /\ versao \in Versoes
    /\ \E c \in 1..MaxCapacidade :
          /\ config = [capacidade_caixa |-> c]
          /\ caixa_atual = NovaCaixa(1, c)
    /\ pecas_aprovadas = <<>>
    /\ pecas_reprovadas = <<>>
    /\ caixas_fechadas = <<>>
    /\ arquivo_pecas = Ausente
    /\ arquivo_caixas = Ausente
    /\ relogio = 1
    /\ backups = SemBackups
    /\ auditoria = <<>>
    /\ gravacao = Ociosa("nenhum", 0)
    /\ copia = Espera
    /\ persistidos = {<< Ausente, Ausente >>}
    /\ ContasIniciais

Init ==
    /\ InicioLivro
    /\ ensaio = SemEnsaio

\* datetime.now() as an operation reads it: never earlier than the last
\* reading, and equal to it when both calls fall in the same second
Agoras == { t \in {relogio, relogio + 1} : t <= MaxRelogio }

\* the in-memory ledger becomes bd
Memoria(bd) ==
    /\ pecas_aprovadas' = bd.pecas_aprovadas
    /\ pecas_reprovadas' = bd.pecas_reprovadas
    /\ caixas_fechadas' = bd.caixas_fechadas
    /\ caixa_atual' = bd.caixa_atual

\* the documents and the backups after an operation that ends in salvar_dados
\* when salvar: fazer_backup copies the documents, then they are rewritten
Disco(bd, salvar, agora) ==
    LET s == salvar_dados(bd, arquivo_pecas, arquivo_caixas) IN
    /\ arquivo_pecas' = IF salvar THEN s.arquivo_pecas ELSE arquivo_pecas
    /\ arquivo_caixas' = IF salvar THEN s.arquivo_caixas ELSE arquivo_caixas
    /\ backups' = IF salvar
                  THEN fazer_backup(backups, arquivo_pecas, arquivo_caixas, agora)
                  ELSE backups

\* auditoria.json after an operation that audits when auditar (v014 only);
\* the run is cut off once MaxAuditoria entries are written
Auditar(auditar, usuario, acao, detalhes, agora) ==
    IF versao = "v014" /\ auditar
    THEN /\ Len(auditoria) < MaxAuditoria
         /\ auditoria' = registrar_auditoria(auditoria, usuario, acao, detalhes, agora)
    ELSE auditoria' = auditoria

\* IDs offered to a run that only records parts
IdsLote == { <<"p", Digitos[n]>> : n \in 1..MaxLote }

\* TelaPrincipal.tela_cadastrar_peca.cadastrar -> BancoDados.adicionar_peca
\* for the ID typed as id
CadastrarId(id) ==
    \E peso \in Pesos, cor \in CoresBrutas,
       comp \in Comprimentos, u \in Usuarios, agora \in Agoras :
        LET r == adicionar_peca(BDAtual, NovaPeca(id, peso, cor, comp, u),
                                config.capacidade_caixa, agora, criterios_banco)
        IN  /\ Len(r.bd.caixas_fechadas) <= MaxFechadas
            /\ Memoria(r.bd)
            /\ Disco(r.bd, r.salvar, agora)
            /\ Auditar(r.ok, u, "CADASTRAR_PECA",
                       Detalhes("ID", Strip(id),
                                IF r.peca.aprovada THEN "APROVADA" ELSE "REPROVADA"),
                       agora)
            /\ relogio' = agora
            /\ UNCHANGED << versao, config >>
            /\ UNCHANGED outras

Cadastrar(ids) == \E id \in ids : CadastrarId(id)

AdicionarPeca == Cadastrar(IdsBrutos)

\* the same operation in a run that only records parts
AdicionarLote == Cadastrar(IdsLote)

\* BancoDados.remover_peca for the ID passed as id
RemoverId(id) ==
    \E u \in Usuarios, agora \in Agoras :
        LET r == remover_peca(BDAtual, id)
        IN  /\ Memoria(r.bd)
            /\ Disco(r.bd, r.salvar, agora)
            /\ Auditar(r.ok, u, "REMOVER_PECA",
                       Detalhes("ID", NormalizarId(id), ""), agora)
            /\ relogio' = agora
            /\ UNCHANGED << versao, config >>
            /\ UNCHANGED outras

RemoverPeca == \E id \in IdsBrutos : RemoverId(id)

\* BancoDados.editar_peca
EditarPeca ==
    /\ versao = "v0142"
    /\ \E id \in IdsBrutos, peso \in Pesos, cor \in CoresBrutas,
          comp \in Comprimentos, agora \in Agoras :
        LET r == editar_peca(BDAtual, id, peso, cor, comp, agora, criterios_banco)
        IN  /\ Memoria(r.bd)
            /\ Disco(r.bd, r.salvar, agora)
            /\ relogio' = agora
            /\ UNCHANGED << versao, config, auditoria >>
            /\ UNCHANGED outras

\* v014 TelaPrincipal.criar_config_sistema.salvar_sistema: db.config is
\* updated in place and written to config.json
SalvarSistema ==
    /\ versao = "v014"
    /\ \E c \in Capacidades :
          config' = [config EXCEPT !.capacidade_caixa = c]
    /\ \E u \in Usuarios :
          Auditar(TRUE, u, "ALTERAR_CONFIG", Detalhes("Sistema", <<>>, ""), relogio)
    /\ UNCHANGED << versao, pecas_aprovadas, pecas_reprovadas, caixas_fechadas,
                    caixa_atual, arquivo_pecas, arquivo_caixas, relogio,
                    backups >>
    /\ UNCHANGED outras

\* v0142 TelaPrincipal.criar_config_sistema.salvar_config_sistema: config.json
\* is written and the process re-executes itself, so BancoDados is rebuilt
SalvarConfigSistema ==
    /\ versao = "v0142"
    /\ \E c \in Capacidades :
          /\ config' = [config EXCEPT !.capacidade_caixa = c]
          /\ Memoria(carregar_dados(arquivo_pecas, arquivo_caixas, c))
    /\ UNCHANGED << versao, arquivo_pecas, arquivo_caixas, relogio,
                    backups, auditoria >>
    /\ UNCHANGED outras

\* a new BancoDados() - the process is started again, or a user logs in again
Reiniciar ==
    /\ Memoria(carregar_dados(arquivo_pecas, arquivo_caixas, config.capacidade_caixa))
    /\ UNCHANGED << versao, config, arquivo_pecas, arquivo_caixas, relogio,
                    backups, auditoria >>
    /\ UNCHANGED outras

Next ==
    \/ AdicionarPeca
    \/ RemoverPeca
    \/ EditarPeca
    \/ SalvarSistema
    \/ SalvarConfigSistema
    \/ Reiniciar

Spec == Init /\ [][Next]_vars

\* records only, from an empty ledger, under a capacity that stays as configured
NextLote == AdicionarLote

SpecLote == Init /\ [][NextLote]_vars

\* ------------------------------------------------- validation on its own
\* weights, colours and lengths around the limits of the criteria
PesosEnsaio == {94, 95, 100, 105, 106}
CoresEnsaio == { <<"A", "z", "u", "l">>, <<"v", "e", "r", "d", "e", " ">>, Roxo }
ComprimentosEnsaio == {9, 10, 15, 20, 21}

\* the default criteria, and criteria an administrator narrowed to one value
CriteriosEstreitos ==
    [ peso_min |-> 100, peso_max |-> 100,
      cores_aceitas |-> {Verde},
      comprimento_min |-> 15, comprimento_max |-> 15 ]

CriteriosEnsaio == {CriteriosPadrao, CriteriosEstreitos}

\* a Peca built from typed values, not yet validated
InitValidar ==
    /\ InicioLivro
    /\ \E peso \in PesosEnsaio, cor \in CoresEnsaio, comp \in ComprimentosEnsaio,
          c \in CriteriosEnsaio, u \in Usuarios :
            ensaio = [ validada |-> FALSE,
                       peca |-> NovaPeca(<<"p", Digitos[1]>>, peso, cor, comp, u),
                       criterios |-> c ]

\* peca.validar(criterios)
Validar ==
    /\ ~ensaio.validada
    /\ ensaio' = [ensaio EXCEPT !.validada = TRUE,
                                !.peca = validar(ensaio.peca, ensaio.criterios)]
    /\ UNCHANGED << versao, config, pecas_aprovadas, pecas_reprovadas,
                    caixas_fechadas, caixa_atual, arquivo_pecas, arquivo_caixas,
                    relogio, backups, auditoria, gravacao, copia, persistidos,
                    contas >>

NextValidar == Validar

SpecValidar == InitValidar /\ [][NextValidar]_vars

\* ------------------------------------------- loading damaged documents
\* the weights typed for the parts p1..pn of a ledger
PesosLote == [1..MaxLote -> Pesos]

\* the ledger after p1..pn are recorded into bd, one adicionar_peca each
RECURSIVE Registrar(_, _, _, _)
Registrar(bd, pesos, n, capacidade) ==
    IF n = 0 THEN bd
    ELSE adicionar_peca(Registrar(bd, pesos, n - 1, capacidade),
                        NovaPeca(<<"p", Digitos[n]>>, pesos[n],
                                 CHOOSE cor \in CoresBrutas : TRUE,
                                 CHOOSE comp \in Comprimentos : TRUE,
                                 CHOOSE u \in Usuarios : TRUE),
                        capacidade, 1, CriteriosPadrao).bd

\* a record of a document that lost one key, and a list whose k-th record did
SemChave(d, chave) == [c \in DOMAIN d \ {chave} |-> d[c]]
Danificar(seq, k, chave) ==
    IF k \in 1..Len(seq) THEN [seq EXCEPT ![k] = SemChave(@, chave)] ELSE seq

\* what can be wrong with the documents BancoDados.__init__ finds
Danos == { "nenhum", "pecas_ilegivel", "caixas_ilegivel", "aprovada",
           "reprovada", "fechada", "membro_fechada", "membro_atual" }

\* pecas.json after the damage: unparsable, or the k-th approved or
\* rejected record without its 'id'
DanoPecas(arq, dano, k) ==
    CASE dano = "pecas_ilegivel" -> Truncado
      [] dano = "aprovada" ->
            Arquivo([arq.doc EXCEPT !.aprovadas = Danificar(@, k, "id")])
      [] dano = "reprovada" ->
            Arquivo([arq.doc EXCEPT !.reprovadas = Danificar(@, k, "id")])
      [] OTHER -> arq

\* caixas.json after the damage: unparsable, the k-th archived container
\* without its 'numero', or the first part of the k-th archived container or
\* of the current container without its 'id'
DanoCaixas(arq, dano, k) ==
    CASE dano = "caixas_ilegivel" -> Truncado
      [] dano = "fechada" ->
            Arquivo([arq.doc EXCEPT !.fechadas = Danificar(@, k, "numero")])
      [] dano = "membro_fechada" /\ k \in 1..Len(arq.doc.fechadas) ->
            Arquivo([arq.doc EXCEPT
                        !.fechadas[k].pecas = Danificar(@, 1, "id")])
      [] dano = "membro_atual" ->
            Arquivo([arq.doc EXCEPT !.atual.pecas = Danificar(@, 1, "id")])
      [] OTHER -> arq

\* the program is about to start on the documents a ledger of p1..pn left,
\* damaged or not
InitCarga ==
    /\ versao \in Versoes
    /\ \E c \in 1..MaxCapacidade, pesos \in PesosLote, n \in 0..MaxLote,
          dano \in Danos, k \in 1..MaxLote :
            LET bd == Registrar(BD(<<>>, <<>>, <<>>, NovaCaixa(1, c)), pesos, n, c)
                s == salvar_dados(bd, Ausente, Ausente)
            IN  /\ config = [capacidade_caixa |-> c]
                /\ caixa_atual = NovaCaixa(1, c)
                /\ arquivo_pecas = DanoPecas(s.arquivo_pecas, dano, k)
                /\ arquivo_caixas = DanoCaixas(s.arquivo_caixas, dano, k)
                /\ persistidos = {<< s.arquivo_pecas, s.arquivo_caixas >>}
    /\ pecas_aprovadas = <<>>
    /\ pecas_reprovadas = <<>>
    /\ caixas_fechadas = <<>>
    /\ relogio = 1
    /\ backups = SemBackups
    /\ auditoria = <<>>
    /\ ensaio = SemEnsaio
    /\ gravacao = Ociosa("nenhum", 0)
    /\ copia = Espera
    /\ ContasIniciais

NextCarga == Reiniciar

SpecCarga == InitCarga /\ [][NextCarga]_vars

\* ------------------------------------------ the steps of one salvar_dados
\* An operation that changed the ledger runs salvar_dados on the interface
\* thread: fazer_backup copies the two documents, then each document is
\* opened for writing, which empties it, and json.dump fills it.  The backup
\* thread started by iniciar_backup_automatico runs fazer_backup on its own,
\* with nothing that orders it against the interface thread.

\* capacities db.config can hold when the program starts: those of a fresh
\* installation, and the zero an administrator saved
CapacidadesIniciais == 0..MaxCapacidade

InitGravacao ==
    /\ versao \in Versoes
    /\ \E c \in CapacidadesIniciais :
          /\ config = [capacidade_caixa |-> c]
          /\ caixa_atual = NovaCaixa(1, c)
    /\ pecas_aprovadas = <<>>
    /\ pecas_reprovadas = <<>>
    /\ caixas_fechadas = <<>>
    /\ arquivo_pecas = Ausente
    /\ arquivo_caixas = Ausente
    /\ relogio = 1
    /\ backups = SemBackups
    /\ auditoria = <<>>
    /\ ensaio = SemEnsaio
    /\ gravacao = Ociosa("nenhum", 0)
    /\ copia = Espera
    /\ persistidos = {<< Ausente, Ausente >>}
    /\ ContasIniciais

\* the operation r changed the ledger in memory and enters salvar_dados, or
\* returns at once when it has nothing to save
Entrar(r, agora, usuario, acao, detalhes) ==
    /\ Memoria(r.bd)
    /\ gravacao' =
          IF r.salvar
          THEN [ etapa |-> "backup_pecas", retorno |-> "nenhum",
                 ordem |-> gravacao.ordem + 1,
                 antes |-> << arquivo_pecas, arquivo_caixas >>,
                 memoria_antes |-> BDAtual,
                 agora |-> agora,
                 registro |-> [usuario |-> usuario, acao |-> acao,
                               detalhes |-> detalhes] ]
          ELSE Ociosa(IF r.ok THEN "ok" ELSE "falhou", gravacao.ordem + 1)
    /\ relogio' = agora
    /\ UNCHANGED << versao, config, arquivo_pecas, arquivo_caixas, backups,
                    auditoria, ensaio, contas, copia, persistidos >>

\* cadastrar -> BancoDados.adicionar_peca up to its call of salvar_dados
IniciarCadastro ==
    /\ gravacao.etapa = "ocioso"
    /\ gravacao.ordem < MaxOperacoes
    /\ \E id \in IdsBrutos, peso \in Pesos, cor \in CoresBrutas,
          comp \in Comprimentos, u \in Usuarios, agora \in Agoras :
        LET r == adicionar_peca(BDAtual, NovaPeca(id, peso, cor, comp, u),
                                config.capacidade_caixa, agora, criterios_banco)
        IN  /\ Len(r.bd.caixas_fechadas) <= MaxFechadas
            /\ Entrar(r, agora, u, "CADASTRAR_PECA",
                      Detalhes("ID", Strip(id),
                               IF r.peca.aprovada THEN "APROVADA" ELSE "REPROVADA"))

\* BancoDados.remover_peca up to its call of salvar_dados
IniciarRemocao ==
    /\ gravacao.etapa = "ocioso"
    /\ gravacao.ordem < MaxOperacoes
    /\ \E id \in IdsBrutos, u \in Usuarios, agora \in Agoras :
        Entrar(remover_peca(BDAtual, id), agora, u, "REMOVER_PECA",
               Detalhes("ID", NormalizarId(id), ""))

\* the save moves to etapa, the ledger in memory and the rest untouched
Passo(etapa) ==
    /\ gravacao' = [gravacao EXCEPT !.etapa = etapa]
    /\ UNCHANGED << versao, config, pecas_aprovadas, pecas_reprovadas,
                    caixas_fechadas, caixa_atual, relogio, auditoria, ensaio, contas,
                    copia, persistidos >>

\* salvar_dados -> fazer_backup: the copy of pecas.json, then of caixas.json
BackupPecas ==
    /\ gravacao.etapa = "backup_pecas"
    /\ backups' = copiar_pecas(backups, arquivo_pecas, gravacao.agora)
    /\ Passo("backup_caixas")
    /\ UNCHANGED << arquivo_pecas, arquivo_caixas >>

BackupCaixas ==
    /\ gravacao.etapa = "backup_caixas"
    /\ backups' = copiar_caixas(backups, arquivo_caixas, gravacao.agora)
    /\ Passo("abrir_pecas")
    /\ UNCHANGED << arquivo_pecas, arquivo_caixas >>

\* open(self.arquivo_pecas, 'w') empties the document
AbrirPecas ==
    /\ gravacao.etapa = "abrir_pecas"
    /\ arquivo_pecas' = Truncado
    /\ Passo("escrever_pecas")
    /\ UNCHANGED << arquivo_caixas, backups >>

\* json.dump(dados_pecas, f) and the close of the file
EscreverPecas ==
    /\ gravacao.etapa = "escrever_pecas"
    /\ arquivo_pecas' = salvar_dados(BDAtual, arquivo_pecas, arquivo_caixas).arquivo_pecas
    /\ Passo("abrir_caixas")
    /\ UNCHANGED << arquivo_caixas, backups >>

\* dados_caixas is built, then open(self.arquivo_caixas, 'w') empties the
\* document; a to_dict that raises leaves only the exception path
FalhaAoMontar ==
    \/ \E i \in 1..Len(caixas_fechadas) : Caixa_to_dict_falha(caixas_fechadas[i])
    \/ Caixa_to_dict_falha(caixa_atual)

AbrirCaixas ==
    /\ gravacao.etapa = "abrir_caixas"
    /\ ~FalhaAoMontar
    /\ arquivo_caixas' = Truncado
    /\ Passo("escrever_caixas")
    /\ UNCHANGED << arquivo_pecas, backups >>

\* the entry the handler audits once the operation returned success
AuditarRegistro ==
    Auditar(TRUE, gravacao.registro.usuario, gravacao.registro.acao,
            gravacao.registro.detalhes, gravacao.agora)

\* json.dump(dados_caixas, f): salvar_dados returns True, and the operation
\* audits and returns True
EscreverCaixas ==
    /\ gravacao.etapa = "escrever_caixas"
    /\ arquivo_caixas' = salvar_dados(BDAtual, arquivo_pecas, arquivo_caixas).arquivo_caixas
    /\ persistidos' = persistidos \cup {<< arquivo_pecas, arquivo_caixas' >>}
    /\ gravacao' = Ociosa("ok", gravacao.ordem)
    /\ AuditarRegistro
    /\ UNCHANGED << versao, config, pecas_aprovadas, pecas_reprovadas,
                    caixas_fechadas, caixa_atual, arquivo_pecas, relogio,
                    backups, ensaio, contas, copia >>

\* an open, a json.dump or a to_dict raises inside salvar_dados: its except
\* logs and returns False, the caller drops that result, audits and returns
\* True; the ledger in memory and the documents stay as the exception found
\* them
ErroEscrita ==
    /\ gravacao.etapa \in {"abrir_pecas", "escrever_pecas", "abrir_caixas",
                           "escrever_caixas"}
    /\ gravacao' = Ociosa("ok", gravacao.ordem)
    /\ AuditarRegistro
    /\ UNCHANGED << versao, config, pecas_aprovadas, pecas_reprovadas,
                    caixas_fechadas, caixa_atual, arquivo_pecas, arquivo_caixas,
                    relogio, backups, ensaio, contas, copia, persistidos >>

\* the process dies inside salvar_dados and the program is started again:
\* BancoDados() loads what is on disk and starts a new backup thread
Queda ==
    /\ gravacao.etapa # "ocioso"
    /\ Memoria(carregar_dados(arquivo_pecas, arquivo_caixas, config.capacidade_caixa))
    /\ gravacao' = Ociosa("nenhum", gravacao.ordem)
    /\ copia' = Espera
    /\ UNCHANGED << versao, config, arquivo_pecas, arquivo_caixas, relogio,
                    backups, auditoria, ensaio, contas, persistidos >>

\* backup_thread -> fazer_backup: the copy of pecas.json under the name of
\* the second it runs in
CopiarPecas ==
    /\ copia.etapa = "espera"
    /\ \E agora \in Agoras :
          /\ backups' = copiar_pecas(backups, arquivo_pecas, agora)
          /\ copia' = [etapa |-> "copiar_caixas", nome |-> agora]
          /\ relogio' = agora
    /\ UNCHANGED << versao, config, pecas_aprovadas, pecas_reprovadas,
                    caixas_fechadas, caixa_atual, arquivo_pecas, arquivo_caixas,
                    auditoria, ensaio, contas, gravacao, persistidos >>

\* backup_thread -> fazer_backup: the copy of caixas.json under the same name
CopiarCaixas ==
    /\ copia.etapa = "copiar_caixas"
    /\ backups' = copiar_caixas(backups, arquivo_caixas, copia.nome)
    /\ copia' = Espera
    /\ UNCHANGED << versao, config, pecas_aprovadas, pecas_reprovadas,
                    caixas_fechadas, caixa_atual, arquivo_pecas, arquivo_caixas,
                    relogio, auditoria, ensaio, contas, gravacao, persistidos >>

NextGravacao ==
    \/ IniciarCadastro
    \/ IniciarRemocao
    \/ BackupPecas
    \/ BackupCaixas
    \/ AbrirPecas
    \/ EscreverPecas
    \/ AbrirCaixas
    \/ EscreverCaixas
    \/ ErroEscrita
    \/ Queda
    \/ CopiarPecas
    \/ CopiarCaixas

SpecGravacao == InitGravacao /\ [][NextGravacao]_vars

\* ----------------------------------------------------------------- claims
\* every container of the ledger: the archived ones, then the current one
Caixas == Append(caixas_fechadas, caixa_atual)
CaixasPrimo == Append(caixas_fechadas', caixa_atual')

\* the parts of both lists, approved first
TodasPecas == pecas_aprovadas \o pecas_reprovadas

\* the step is a record, an edit or a removal
OperacaoDePeca == AdicionarPeca \/ EditarPeca \/ RemoverPeca

\* C1: every container, current or archived, holds at most as many parts as
\* its own capacity.
C1_CapacidadeRespeitada ==
    \A i \in 1..Len(Caixas) : Len(Caixas[i].pecas) <= Caixas[i].capacidade

\* C2: once a container has its closing stamp, no record, edit or removal
\* deletes a part from it, adds a part to it or stamps it again; an archived
\* container keeps its place and the current one stays or is archived as is.
C2_FechadaImutavel ==
    [][ OperacaoDePeca =>
          /\ \A i \in 1..Len(caixas_fechadas) :
                caixas_fechadas[i].data_fechamento # None =>
                    /\ i <= Len(caixas_fechadas')
                    /\ caixas_fechadas'[i] = caixas_fechadas[i]
          /\ caixa_atual.data_fechamento # None =>
                \/ caixa_atual' = caixa_atual
                \/ /\ Len(caixas_fechadas') > Len(caixas_fechadas)
                   /\ caixas_fechadas'[Len(caixas_fechadas) + 1] = caixa_atual
      ]_vars

\* C3: no part ID, compared after upper-casing and trimming, occurs twice in
\* the approved and rejected lists taken together.
C3_IdUnico ==
    \A i, j \in 1..Len(TodasPecas) :
        i # j => NormalizarId(TodasPecas[i].id_peca) # NormalizarId(TodasPecas[j].id_peca)

\* C3 witness: the ledger holds the first ID in its normalised spelling, has
\* an approved and a rejected part and has been saved.
C3_Testemunha ==
    /\ Len(pecas_aprovadas) >= 1
    /\ Len(pecas_reprovadas) >= 1
    /\ arquivo_pecas.existe
    /\ \E i \in 1..Len(TodasPecas) : TodasPecas[i].id_peca = <<"P", Digitos[1]>>

\* C4: every part held in a container, current or archived, is in the
\* approved list.
C4_MembroAprovado ==
    \A i \in 1..Len(Caixas) : \A k \in 1..Len(Caixas[i].pecas) :
        IndicePeca(pecas_aprovadas, Caixas[i].pecas[k]) # 0

\* the number of places, over the containers cxs, that hold the ID
OcorrenciasEm(cxs, id) ==
    Cardinality({ <<i, k>> \in (1..Len(cxs)) \X (1..(MaxCapacidade + 1)) :
                    k <= Len(cxs[i].pecas) /\ cxs[i].pecas[k] = id })

Ocorrencias(id) == OcorrenciasEm(Caixas, id)

\* C5: every approved part is a member of exactly one container, and no ID
\* is a member of two containers.
C5_ExatamenteUmaCaixa ==
    /\ \A n \in 1..Len(pecas_aprovadas) : Ocorrencias(pecas_aprovadas[n].id_peca) = 1
    /\ \A i \in 1..Len(Caixas) : \A k \in 1..Len(Caixas[i].pecas) :
          Ocorrencias(Caixas[i].pecas[k]) <= 1

\* C6 as claimed: with capacity C and N approved parts recorded there are
\* N div C archived containers and N mod C parts in the current one; after
\* C parts 1 archived and 0 current, after C + 1 parts 1 archived and 1 current.
C6_Original ==
    LET C == config.capacidade_caixa
        N == Len(pecas_aprovadas)
    IN  /\ Len(caixas_fechadas) = N \div C
        /\ Len(caixa_atual.pecas) = N % C
        /\ N = C => Len(caixas_fechadas) = 1 /\ Len(caixa_atual.pecas) = 0
        /\ N = C + 1 => Len(caixas_fechadas) = 1 /\ Len(caixa_atual.pecas) = 1

\* C6 amended: the same, the C + 1 case for capacities of at least 2.
C6_Empacotamento ==
    LET C == config.capacidade_caixa
        N == Len(pecas_aprovadas)
    IN  /\ Len(caixas_fechadas) = N \div C
        /\ Len(caixa_atual.pecas) = N % C
        /\ N = C => Len(caixas_fechadas) = 1 /\ Len(caixa_atual.pecas) = 0
        /\ (C >= 2 /\ N = C + 1) =>
                Len(caixas_fechadas) = 1 /\ Len(caixa_atual.pecas) = 1

\* C6 witness: capacity 2 and three approved parts recorded.
C6_Testemunha ==
    /\ config.capacidade_caixa = 2
    /\ Len(pecas_aprovadas) = 3
    /\ Len(caixas_fechadas) = 1
    /\ Len(caixa_atual.pecas) = 1

\* C7: a container has its closing stamp exactly when it holds as many parts
\* as its capacity - none with fewer parts is stamped, none that is full is
\* unstamped.
C7_FechaAoEncher ==
    \A i \in 1..Len(Caixas) :
        /\ Len(Caixas[i].pecas) < Caixas[i].capacidade => Caixas[i].data_fechamento = None
        /\ Len(Caixas[i].pecas) = Caixas[i].capacidade => Caixas[i].data_fechamento # None

\* C8: every container in caixas_fechadas has its closing stamp.
C8_ArquivadaFechada ==
    \A i \in 1..Len(caixas_fechadas) : caixas_fechadas[i].data_fechamento # None

\* C9: after every record, edit or removal the current container is open:
\* no closing stamp and fewer parts than its capacity.
C9_AtualAberta ==
    [][ OperacaoDePeca =>
          /\ caixa_atual'.data_fechamento = None
          /\ Len(caixa_atual'.pecas) < caixa_atual'.capacidade
      ]_vars

\* C10: every container has a capacity of at least 1, also after the
\* configured capacity is changed, so a record that approves a part leaves
\* that part inside a container.
C10_CapacidadePositiva ==
    /\ [](\A i \in 1..Len(Caixas) : Caixas[i].capacidade >= 1)
    /\ [][ (AdicionarPeca /\ Len(pecas_aprovadas') = Len(pecas_aprovadas) + 1) =>
              OcorrenciasEm(CaixasPrimo,
                            pecas_aprovadas'[Len(pecas_aprovadas')].id_peca) >= 1
        ]_vars

\* everything a ledger operation may write: memory, documents, backups, audit
Efeitos == << pecas_aprovadas, pecas_reprovadas, caixas_fechadas, caixa_atual,
              arquivo_pecas, arquivo_caixas, backups, auditoria >>

\* the normalised ID is in the approved or the rejected list
Registrado(id) == \E i \in 1..Len(TodasPecas) : TodasPecas[i].id_peca = id

\* C11: recording a part whose normalised ID is already in the approved or
\* rejected list returns a failure with the duplicate-ID message and changes
\* nothing: lists, containers, documents, backups and audit log stay as they
\* were.
C11_DuplicadoSemEfeito ==
    /\ [](\A id \in IdsBrutos, peso \in Pesos, cor \in CoresBrutas,
             comp \in Comprimentos, u \in Usuarios :
            Registrado(NormalizarId(id)) =>
                LET r == adicionar_peca(BDAtual, NovaPeca(id, peso, cor, comp, u),
                                        config.capacidade_caixa, relogio,
                                        criterios_banco)
                IN  ~r.ok /\ r.msg = "ja existe")
    /\ [][ \A id \in IdsBrutos :
              (CadastrarId(id) /\ Registrado(NormalizarId(id))) => UNCHANGED Efeitos
        ]_vars

\* C11 witness: the first ID is recorded, saved, backed up and audited, so
\* that typing it again in its other spelling is a duplicate.
C11_Testemunha ==
    /\ Registrado(<<"P", Digitos[1]>>)
    /\ arquivo_pecas.existe
    /\ backups[relogio].pecas.existe
    /\ Len(auditoria) >= 1

\* C12: no part of the rejected list is a member of a container, current or
\* archived.
C12_ReprovadaForaDeCaixa ==
    \A n \in 1..Len(pecas_reprovadas) : Ocorrencias(pecas_reprovadas[n].id_peca) = 0

\* the check named m fails for part p under criteria c
Reprova(m, p, c) ==
    CASE m = "Peso" -> p.peso < c.peso_min \/ p.peso > c.peso_max
      [] m = "Cor" -> \A cor \in c.cores_aceitas : cor # p.cor
      [] m = "Comprimento" -> p.comprimento < c.comprimento_min
                              \/ p.comprimento > c.comprimento_max

\* the reasons of all failed checks, in the order weight, colour, length
MotivosEsperados(p, c) ==
    LET falhou(m) == Reprova(m, p, c)
    IN  SelectSeq(<<"Peso", "Cor", "Comprimento">>, falhou)

\* C13: validar approves exactly when weight and length are within their
\* inclusive limits and the colour is an accepted one, and the reasons are
\* one per failed check, all of them, in the order weight, colour, length.
C13_ValidarCompleto ==
    ensaio.validada =>
        /\ ensaio.peca.aprovada =
                (~Reprova("Peso", ensaio.peca, ensaio.criterios)
                 /\ ~Reprova("Cor", ensaio.peca, ensaio.criterios)
                 /\ ~Reprova("Comprimento", ensaio.peca, ensaio.criterios))
        /\ ensaio.peca.motivos_reprovacao =
                MotivosEsperados(ensaio.peca, ensaio.criterios)

\* C13 witness: a validated part that fails all three checks.
C13_Testemunha ==
    /\ ensaio.validada
    /\ ensaio.peca.motivos_reprovacao = <<"Peso", "Cor", "Comprimento">>

\* C14: removing an ID that is in neither list returns a failure with the
\* not-found message and is a no-op - memory, documents, backups and audit
\* log stay as they were - and a second call returns the same.
C14_RemocaoInexistente ==
    /\ [](\A id \in IdsBrutos :
            ~Registrado(NormalizarId(id)) =>
                LET r == remover_peca(BDAtual, id)
                IN  /\ ~r.ok /\ r.msg = "nao encontrada"
                    /\ r.bd = BDAtual
                    /\ remover_peca(r.bd, id) = r)
    /\ [][ \A id \in IdsBrutos :
              (RemoverId(id) /\ ~Registrado(NormalizarId(id))) => UNCHANGED Efeitos
        ]_vars

\* C14 witness: a saved and backed-up ledger that holds the first ID and not
\* the second, so that removing the second finds nothing.
C14_Testemunha ==
    /\ Registrado(<<"P", Digitos[1]>>)
    /\ ~Registrado(<<"P", Digitos[2]>>)
    /\ arquivo_caixas.existe
    /\ backups[relogio].caixas.existe

\* the parts of seq other than the one with the ID
SemPeca(seq, id) == LET outra(p) == p.id_peca # id IN SelectSeq(seq, outra)

\* the member IDs of seq other than the ID
SemId(seq, id) == LET outro(x) == x # id IN SelectSeq(seq, outro)

VistaPeca(p) == [ id_peca |-> p.id_peca, aprovada |-> p.aprovada,
                  motivos_reprovacao |-> p.motivos_reprovacao ]

VistaCaixa(c) == [ numero |-> c.numero, capacidade |-> c.capacidade,
                   data_fechamento |-> c.data_fechamento, pecas |-> c.pecas ]

VistaLivro(bd) ==
    [ aprovadas |-> [i \in 1..Len(bd.pecas_aprovadas) |-> VistaPeca(bd.pecas_aprovadas[i])],
      reprovadas |-> [i \in 1..Len(bd.pecas_reprovadas) |-> VistaPeca(bd.pecas_reprovadas[i])],
      fechadas |-> [i \in 1..Len(bd.caixas_fechadas) |-> VistaCaixa(bd.caixas_fechadas[i])],
      atual |-> VistaCaixa(bd.caixa_atual) ]

\* the ledger a fresh BancoDados loads after bd is saved
SalvoERecarregado(bd) ==
    LET s == salvar_dados(bd, arquivo_pecas, arquivo_caixas)
    IN  carregar_dados(s.arquivo_pecas, s.arquivo_caixas, config.capacidade_caixa)

\* C16: saving the ledger and loading it into a fresh one gives back the same
\* approved and rejected parts (IDs, verdicts, reasons), the same archived
\* containers (numbers, capacities, closing stamps, members) and the same
\* current container.
C16_IdaEVolta ==
    VistaLivro(SalvoERecarregado(BDAtual)) = VistaLivro(BDAtual)

\* every record of pecas.json, and of caixas.json, can be read
PecasIntegras(arq) ==
    /\ Legivel(arq)
    /\ \A i \in 1..Len(arq.doc.aprovadas) : PecaLegivel(arq.doc.aprovadas[i])
    /\ \A i \in 1..Len(arq.doc.reprovadas) : PecaLegivel(arq.doc.reprovadas[i])

CaixasIntegras(arq) ==
    /\ Legivel(arq)
    /\ \A i \in 1..Len(arq.doc.fechadas) : CaixaLegivel(arq.doc.fechadas[i])
    /\ CaixaLegivel(arq.doc.atual)

\* the IDs of a list of records, and the members of a container record
IdsDe(seq) == [i \in 1..Len(seq) |-> seq[i].id]
MembrosDe(d) == [numero |-> d.numero, pecas |-> IdsDe(d.pecas)]

\* C20: starting on documents of which one cannot be read or holds a
\* malformed record completes; the collections of that document are empty
\* or default, with no part of it loaded, and the document that can be read
\* is loaded in full.
C20_CargaTolerante ==
    [][ Reiniciar =>
          /\ (arquivo_pecas.existe /\ ~PecasIntegras(arquivo_pecas)) =>
                /\ pecas_aprovadas' = <<>>
                /\ pecas_reprovadas' = <<>>
          /\ (arquivo_caixas.existe /\ ~CaixasIntegras(arquivo_caixas)) =>
                /\ caixas_fechadas' = <<>>
                /\ caixa_atual' = NovaCaixa(1, config.capacidade_caixa)
          /\ PecasIntegras(arquivo_pecas) =>
                /\ [i \in 1..Len(pecas_aprovadas') |-> pecas_aprovadas'[i].id_peca]
                        = IdsDe(arquivo_pecas.doc.aprovadas)
                /\ [i \in 1..Len(pecas_reprovadas') |-> pecas_reprovadas'[i].id_peca]
                        = IdsDe(arquivo_pecas.doc.reprovadas)
          /\ CaixasIntegras(arquivo_caixas) =>
                /\ [i \in 1..Len(caixas_fechadas') |->
                        [ numero |-> caixas_fechadas'[i].numero,
                          pecas |-> caixas_fechadas'[i].pecas ]]
                        = [i \in 1..Len(arquivo_caixas.doc.fechadas) |->
                                MembrosDe(arquivo_caixas.doc.fechadas[i])]
                /\ [ numero |-> caixa_atual'.numero, pecas |-> caixa_atual'.pecas ]
                        = MembrosDe(arquivo_caixas.doc.atual) ]_vars

\* the pair of documents the save in progress is writing: the whole ledger
\* in memory, or nothing new when the containers document cannot be built
ParNovo ==
    LET s == salvar_dados(BDAtual, arquivo_pecas, arquivo_caixas)
    IN  IF FalhaAoMontar THEN gravacao.antes
        ELSE << s.arquivo_pecas, s.arquivo_caixas >>

\* C17: when the process dies at any point of a save, the documents the next
\* start finds are the complete pair persisted before the save or the
\* complete new pair: no document cut short, and no parts document and
\* containers document of different snapshots.
C17_QuedaAtomica ==
    [][ Queda => << arquivo_pecas', arquivo_caixas' >>
                    \in {gravacao.antes, ParNovo} ]_vars

\* the documents are between the first truncation and the last write of a save
EntreEscritas ==
    gravacao.etapa \in {"escrever_pecas", "abrir_caixas", "escrever_caixas"}

\* nobody is in the middle of writing the pair of copies named nome
CopiaPronta(nome) ==
    /\ ~(copia.etapa = "copiar_caixas" /\ copia.nome = nome)
    /\ ~(gravacao.etapa = "backup_caixas" /\ gravacao.agora = nome)

\* C18: the backup thread never copies a document while an operation is
\* between the writes of its save, and every finished pair of copies (parts
\* copy, containers copy) is one pair of documents a save finished writing.
C18_BackupCoerente ==
    /\ [][ (CopiarPecas \/ CopiarCaixas) => ~EntreEscritas ]_vars
    /\ [](\A nome \in 1..MaxRelogio :
            ( /\ backups[nome].pecas.existe
              /\ backups[nome].caixas.existe
              /\ CopiaPronta(nome) )
            => << backups[nome].pecas, backups[nome].caixas >> \in persistidos)

\* C19: when a write of the documents fails during record or remove, the
\* operation returns failure and the ledger in memory is again what it was
\* before the operation.
C19_FalhaDesfeita ==
    [][ ErroEscrita => /\ gravacao'.retorno = "falhou"
                       /\ BDAtual' = gravacao.memoria_antes ]_vars

\* the capacities of the containers of a ledger, by container number
CapacidadeDe(cxs, numero) ==
    { cxs[i].capacidade : i \in { k \in 1..Len(cxs) : cxs[k].numero = numero } }

NumerosDe(cxs) == { cxs[i].numero : i \in 1..Len(cxs) }

\* C21: the capacity of a container never changes after its creation: through
\* a capacity update, a save and a reload, every container that exists before
\* and after a step keeps its capacity, and a container that appears in a
\* step has the configured capacity.
C21_CapacidadeFixa ==
    [][ /\ \A n \in NumerosDe(Caixas) \cap NumerosDe(CaixasPrimo) :
              CapacidadeDe(CaixasPrimo, n) = CapacidadeDe(Caixas, n)
        /\ \A n \in NumerosDe(CaixasPrimo) \ NumerosDe(Caixas) :
              CapacidadeDe(CaixasPrimo, n) = {config'.capacidade_caixa} ]_vars

\* ------------------------------------------------ the quality criteria
\* the handlers of the accounts, the session and the settings a run may call
MaxChamadas == 4

\* the handler that ran last, what it was given and what it showed its caller
Resposta(op, args, ok, valor) ==
    [ op |-> op, args |-> args, ok |-> ok, valor |-> valor, perfil |-> SemPerfil,
      ordem |-> resposta.ordem + 1 ]

EhDigito(ch) == \E n \in 1..Len(Digitos) : Digitos[n] = ch
ValorDigito(ch) == CHOOSE n \in 1..Len(Digitos) : Digitos[n] = ch

RECURSIVE Inteiro(_)
Inteiro(s) ==
    IF s = <<>> THEN 0
    ELSE 10 * Inteiro(SubSeq(s, 1, Len(s) - 1)) + ValorDigito(s[Len(s)])

\* float(entry.get()): blanks around the number are dropped; a text that is
\* not a number raises ValueError
float(texto) ==
    LET t == Strip(texto) IN
    IF t # <<>> /\ \A i \in 1..Len(t) : EhDigito(t[i])
    THEN [ok |-> TRUE, valor |-> Inteiro(t)]
    ELSE [ok |-> FALSE, valor |-> 0]

\* texto.split(sep)
RECURSIVE split(_, _)
split(texto, sep) ==
    IF \E i \in 1..Len(texto) : texto[i] = sep
    THEN LET i == CHOOSE k \in 1..Len(texto) :
                      texto[k] = sep /\ \A j \in 1..(k - 1) : texto[j] # sep
         IN  << SubSeq(texto, 1, i - 1) >> \o split(SubSeq(texto, i + 1, Len(texto)), sep)
    ELSE << texto >>

\* [cor.strip().lower() for cor in entry_cores.get().split(',')]
CoresDoTexto(texto) ==
    LET partes == split(texto, ",")
    IN  [i \in 1..Len(partes) |-> StrLower(Strip(partes[i]))]

\* what an administrator may type in a numeric field of the criteria form
EntradasNumericas == { <<"1">>, <<" ", "2">>, <<"x">> }

\* what an administrator may type in the colours field
EntradasCores ==
    { <<>>, Verde, <<"A", "z", "u", "l", ",", " ", "r", "o", "x", "o">> }

\* TelaPrincipal.criar_config_criterios.salvar_criterios
salvar_criterios(peso_min, peso_max, comp_min, comp_max, cores) ==
    LET pmin == float(peso_min)
        pmax == float(peso_max)
        cmin == float(comp_min)
        cmax == float(comp_max)
        lista == CoresDoTexto(cores)
        valido == pmin.ok /\ pmax.ok /\ cmin.ok /\ cmax.ok
        novos_criterios ==
            [ peso_min |-> pmin.valor, peso_max |-> pmax.valor,
              cores_aceitas |-> { lista[i] : i \in 1..Len(lista) },
              comprimento_min |-> cmin.valor, comprimento_max |-> cmax.valor ]
    IN  /\ sessao.ativa
        /\ sessao.tela = "tela_configuracoes"
        /\ resposta.ordem < MaxChamadas
        /\ criterios_qualidade' = IF valido THEN novos_criterios ELSE criterios_qualidade
        \* v014 writes self.db.config, v0142 the config of TelaPrincipal
        /\ criterios_banco' = IF valido /\ versao = "v014"
                              THEN novos_criterios ELSE criterios_banco
        /\ auditoria' = IF valido /\ versao = "v014"
                        THEN registrar_auditoria(auditoria, sessao.usuario, "ALTERAR_CONFIG",
                                 Detalhes("Criterios de qualidade", <<>>, ""), relogio)
                        ELSE auditoria
        /\ resposta' = Resposta("salvar_criterios", SemArgs, valido,
                                IF valido THEN "Sucesso" ELSE "Erro")
        /\ UNCHANGED << versao, config, pecas_aprovadas, pecas_reprovadas,
                        caixas_fechadas, caixa_atual, arquivo_pecas, arquivo_caixas,
                        relogio, backups, ensaio, gravacao, copia, persistidos,
                        janelas, usuarios, arquivo_usuarios, sessao, logs >>

SalvarCriterios ==
    \E peso_min \in EntradasNumericas, peso_max \in EntradasNumericas,
       comp_min \in EntradasNumericas, comp_max \in EntradasNumericas,
       cores \in EntradasCores :
        salvar_criterios(peso_min, peso_max, comp_min, comp_max, cores)

\* the administrator of a fresh installation has opened the settings
SessaoDe(usuario, us, tela) ==
    [ativa |-> TRUE, usuario |-> usuario, info_usuario |-> Perfil(us[usuario]),
     tela |-> tela]

InitCriterios ==
    /\ versao \in Versoes
    /\ \E c \in 1..MaxCapacidade :
          /\ config = [capacidade_caixa |-> c]
          /\ caixa_atual = NovaCaixa(1, c)
    /\ pecas_aprovadas = <<>>
    /\ pecas_reprovadas = <<>>
    /\ caixas_fechadas = <<>>
    /\ arquivo_pecas = Ausente
    /\ arquivo_caixas = Ausente
    /\ relogio = 1
    /\ backups = SemBackups
    /\ auditoria = <<>>
    /\ gravacao = Ociosa("nenhum", 0)
    /\ copia = Espera
    /\ persistidos = {<< Ausente, Ausente >>}
    /\ ensaio = SemEnsaio
    /\ criterios_qualidade = CriteriosPadrao
    /\ criterios_banco = CriteriosPadrao
    /\ janelas = <<>>
    /\ \E sal \in Sais : usuarios = criar_usuario_padrao(sal, 1)
    /\ arquivo_usuarios = usuarios
    /\ sessao = SessaoDe(Admin, usuarios, "tela_configuracoes")
    /\ logs = << Linha("SISTEMA", "Usuario admin criado", Admin) >>
    /\ resposta = SemResposta

NextCriterios == SalvarCriterios

SpecCriterios == InitCriterios /\ [][NextCriterios]_vars

\* C22: after any sequence of criteria updates the stored criteria have
\* peso_min <= peso_max, comprimento_min <= comprimento_max and at least one
\* accepted colour, and an update that would break this leaves them unchanged
CriteriosCoerentes(c) ==
    /\ c.peso_min <= c.peso_max
    /\ c.comprimento_min <= c.comprimento_max
    /\ c.cores_aceitas # {}

C22_CriteriosCoerentes == CriteriosCoerentes(criterios_qualidade)

\* ------------------------------------------------------ the audit trail
\* the audit entries a run appends, one per second
MaxRegistros == 1002

InitAuditoria ==
    /\ Init
    /\ versao = "v014"

\* ConfiguracaoSistema.registrar_auditoria called by an audited operation
RegistrarAuditoria ==
    /\ relogio <= MaxRegistros
    /\ \E u \in Usuarios :
          auditoria' = registrar_auditoria(auditoria, u, "CADASTRAR_PECA",
                                           Detalhes("ID", <<"p", "1">>, "APROVADA"),
                                           relogio)
    /\ relogio' = relogio + 1
    /\ UNCHANGED << versao, config, pecas_aprovadas, pecas_reprovadas,
                    caixas_fechadas, caixa_atual, arquivo_pecas, arquivo_caixas,
                    backups >>
    /\ UNCHANGED outras

NextAuditoria == RegistrarAuditoria

SpecAuditoria == InitAuditoria /\ [][NextAuditoria]_vars

\* the entries appended so far carry the timestamps 1 .. Registrados
Registrados == relogio - 1

\* C23: after any number of appends auditoria.json holds at most 1000
\* entries, and they are the most recently appended ones in append order
C23_AuditoriaRecente ==
    /\ Len(auditoria) <= LimiteAuditoria
    /\ Len(auditoria) = IF Registrados < LimiteAuditoria THEN Registrados
                        ELSE LimiteAuditoria
    /\ \A i \in 1..Len(auditoria) :
          auditoria[i].timestamp = Registrados - Len(auditoria) + i

\* after 1001 appends the first entry is gone and entries 2..1001 remain
C23_Testemunha ==
    /\ Registrados = LimiteAuditoria + 1
    /\ Len(auditoria) = LimiteAuditoria
    /\ auditoria[1].timestamp = 2
    /\ auditoria[LimiteAuditoria].timestamp = LimiteAuditoria + 1

\* --------------------------------------------- sessions and user accounts
\* SistemaAutenticacao(): usuarios.json is loaded, and admin/admin is created
\* and saved when it holds nobody
SistemaAutenticacao(arq, sal, agora) ==
    IF DOMAIN arq = {}
    THEN Retorno(criar_usuario_padrao(sal, agora), TRUE,
                 << Linha("SISTEMA", "Usuario admin criado", Admin) >>, <<>>, TRUE, "")
    ELSE Retorno(arq, FALSE, <<>>, <<>>, TRUE, "")

\* the store, usuarios.json and the log after a method of SistemaAutenticacao
Contas(r) ==
    /\ usuarios' = r.usuarios
    /\ arquivo_usuarios' = IF r.salvar THEN r.usuarios ELSE arquivo_usuarios
    /\ logs' = logs \o r.linhas

\* auditoria.json after the entries (acao, detalhes) are recorded for usuario
RECURSIVE Auditorias(_, _, _, _)
Auditorias(aud, entradas, usuario, agora) ==
    IF entradas = <<>> \/ versao # "v014" THEN aud
    ELSE Auditorias(registrar_auditoria(aud, usuario, Head(entradas)[1],
                                        Detalhes(Head(entradas)[2], <<>>, ""), agora),
                    Tail(entradas), usuario, agora)

\* what can be typed at the login screen
NomesLogin == { Admin, <<" ", "a", "n", "a">>, <<" ">> }
SenhasLogin == { Admin, SenhaBoa }

\* what can be typed in the user dialogs
NomesNovos == { Admin, <<"b", "i", "a", " ">> }
SenhasNovas == { SenhaCurta, SenhaBoa }
NiveisDigitados == { "operador", "administrador", "gerente" }

\* the screens whose method checks the level of the session, with the level
\* each asks for
NivelDaTela(tela) ==
    CASE tela = "tela_remover_peca" -> "supervisor"
      [] tela = "tela_relatorio" -> "administrador"
      [] tela = "tela_gestao_usuarios" -> "administrador"
      [] tela = "tela_configuracoes" -> "administrador"

TelasProtegidas(v) ==
    IF v = "v014"
    THEN {"tela_remover_peca", "tela_relatorio", "tela_gestao_usuarios",
          "tela_configuracoes"}
    ELSE {"tela_gestao_usuarios", "tela_configuracoes"}

\* a check that lets every session in
PermitidoSempre(v, info_usuario, tela) == TRUE

\* v014: the requer_permissao wrapper; v0142: the test of info_usuario['nivel']
\* at the head of the method
Permitido(v, info_usuario, tela) ==
    IF v = "v014" THEN requer_permissao(info_usuario.nivel, NivelDaTela(tela))
    ELSE info_usuario.nivel = "administrador"

\* the stores a run may start from: admin alone, or admin and ana, whom an
\* administrator created and may have edited since
ContasDeInicio(v) ==
    LET base == criar_usuario_padrao(1, 1) IN
    {base} \cup
    { ComChave(base, Ana,
               [NovoUsuario(hashpw(SenhaBoa, 1), "Ana", nivel, 1) EXCEPT !.ativo = ativo]) :
        nivel \in (IF v = "v014" THEN {"operador", "supervisor", "administrador"}
                   ELSE {"operador", "administrador"}),
        ativo \in BOOLEAN }

InitAcesso ==
    /\ versao \in Versoes
    /\ config = [capacidade_caixa |-> 1]
    /\ caixa_atual = NovaCaixa(1, 1)
    /\ pecas_aprovadas = <<>>
    /\ pecas_reprovadas = <<>>
    /\ caixas_fechadas = <<>>
    /\ arquivo_pecas = Ausente
    /\ arquivo_caixas = Ausente
    /\ relogio = 1
    /\ backups = SemBackups
    /\ auditoria = <<>>
    /\ gravacao = Ociosa("nenhum", 0)
    /\ copia = Espera
    /\ persistidos = {<< Ausente, Ausente >>}
    /\ ensaio = SemEnsaio
    /\ criterios_qualidade = CriteriosPadrao
    /\ criterios_banco = CriteriosPadrao
    /\ janelas = <<>>
    /\ usuarios \in ContasDeInicio(versao)
    /\ arquivo_usuarios = usuarios
    /\ sessao = SemSessao
    /\ logs = << Linha("SISTEMA", "Usuario admin criado", Admin) >>
    /\ resposta = SemResposta

\* what the handlers of the accounts leave alone
livro == << versao, config, pecas_aprovadas, pecas_reprovadas, caixas_fechadas,
            caixa_atual, arquivo_pecas, arquivo_caixas, relogio, backups,
            ensaio, gravacao, copia, persistidos >>

\* v014 TelaPrincipal.__init__: ultima_atividade is now, and the first
\* verificar_timeout, which finds no inactivity, leaves its callback scheduled
TelaPrincipal(usuario, agora) ==
    [ usuario |-> usuario, ultima_atividade |-> agora, agendada |-> TRUE ]

\* TelaLogin.fazer_login, and on success TelaPrincipal.__init__ with its own
\* BancoDados() and SistemaAutenticacao()
FazerLogin ==
    /\ ~sessao.ativa
    /\ resposta.ordem < MaxChamadas
    /\ \E usuario_bruto \in NomesLogin, senha \in SenhasLogin, sal \in Sais :
          LET usuario == Strip(usuario_bruto)
              args == Args(usuario, <<>>, senha, "", "")
              r == autenticar(versao, usuarios, usuario, senha, relogio)
              salvo == IF r.salvar THEN r.usuarios ELSE arquivo_usuarios
              novo == SistemaAutenticacao(salvo, sal, relogio)
          IN  IF usuario = <<>> \/ senha = <<>>
              THEN /\ resposta' = Resposta("fazer_login", args, FALSE, "campos")
                   /\ UNCHANGED << criterios_qualidade, criterios_banco, janelas, usuarios,
                                   arquivo_usuarios, sessao, logs, auditoria >>
                   /\ UNCHANGED livro
              ELSE /\ resposta' = [Resposta("fazer_login", args, r.ok, "") EXCEPT !.perfil = r.valor]
                   /\ auditoria' = Auditorias(auditoria, r.auditar, usuario, relogio)
                   /\ IF r.ok
                      THEN /\ sessao' = [ ativa |-> TRUE, usuario |-> usuario,
                                          info_usuario |-> r.valor, tela |-> "menu" ]
                           /\ usuarios' = novo.usuarios
                           /\ arquivo_usuarios' = IF novo.salvar THEN novo.usuarios ELSE salvo
                           /\ logs' = logs \o r.linhas \o novo.linhas
                           /\ Memoria(carregar_dados(arquivo_pecas, arquivo_caixas,
                                                     config.capacidade_caixa))
                           \* BancoDados() reads the saved configuration
                           /\ criterios_banco' = criterios_qualidade
                           \* v014: it stamps the time and starts its timeout check
                           /\ janelas' = IF versao = "v014"
                                         THEN Append(janelas, TelaPrincipal(usuario, relogio))
                                         ELSE janelas
                           /\ UNCHANGED << versao, config, arquivo_pecas, arquivo_caixas,
                                           relogio, backups, ensaio, gravacao, copia,
                                           persistidos, criterios_qualidade >>
                      ELSE /\ Contas(r)
                           /\ UNCHANGED << sessao, criterios_qualidade, criterios_banco, janelas >>
                           /\ UNCHANGED livro

\* the login screen comes up again with a new SistemaAutenticacao()
TelaLogin(sal) ==
    LET novo == SistemaAutenticacao(arquivo_usuarios, sal, relogio) IN
    /\ sessao' = SemSessao
    /\ Contas(novo)

\* v014 TelaPrincipal.fazer_logout, confirmed
FazerLogout ==
    /\ versao = "v014"
    /\ sessao.ativa
    /\ resposta.ordem < MaxChamadas
    /\ \E sal \in Sais : TelaLogin(sal)
    /\ auditoria' = registrar_auditoria(auditoria, sessao.usuario, "LOGOUT",
                                        Detalhes("Logout manual", <<>>, ""), relogio)
    /\ resposta' = Resposta("fazer_logout", SemArgs, TRUE, "")
    /\ UNCHANGED << criterios_qualidade, criterios_banco, janelas >>
    /\ UNCHANGED livro

\* v0142 'Sair do Sistema' (root.quit) and the next start of the application
Sair ==
    /\ versao = "v0142"
    /\ sessao.ativa
    /\ resposta.ordem < MaxChamadas
    /\ \E sal \in Sais : TelaLogin(sal)
    /\ Memoria(carregar_dados(arquivo_pecas, arquivo_caixas, config.capacidade_caixa))
    /\ resposta' = Resposta("sair", SemArgs, TRUE, "")
    /\ UNCHANGED << versao, config, arquivo_pecas, arquivo_caixas, relogio, backups,
                    auditoria, ensaio, gravacao, copia, persistidos,
                    criterios_qualidade, criterios_banco, janelas >>

\* a screen method that checks the level is called for the session: the menu
\* offers each screen to the levels it admits, the method checks by itself
AbrirTela ==
    /\ sessao.ativa
    /\ resposta.ordem < MaxChamadas
    /\ \E tela \in TelasProtegidas(versao) :
          LET ok == Permitido(versao, sessao.info_usuario, tela) IN
          /\ sessao' = IF ok THEN [sessao EXCEPT !.tela = tela] ELSE sessao
          /\ auditoria' = IF ~ok /\ versao = "v014"
                          THEN acesso_negado(auditoria, sessao.usuario, tela, relogio)
                          ELSE auditoria
          /\ resposta' = Resposta("abrir_tela", Args(<<>>, <<>>, <<>>, "", tela), ok,
                                  IF ok THEN "" ELSE "Acesso Negado")
    /\ UNCHANGED << criterios_qualidade, criterios_banco, janelas, usuarios, arquivo_usuarios, logs >>
    /\ UNCHANGED livro

\* v014 dialog_novo_usuario.criar
Criar ==
    /\ versao = "v014"
    /\ sessao.ativa /\ sessao.tela = "tela_gestao_usuarios"
    /\ resposta.ordem < MaxChamadas
    /\ \E user_bruto \in NomesNovos, senha \in SenhasNovas, senha2 \in SenhasNovas,
          nivel \in NiveisDigitados, sal \in Sais :
          LET user == Strip(user_bruto)
              args == Args(user, <<>>, senha, nivel, "")
              r == criar_usuario(versao, usuarios, user, senha, "Nome", nivel, sal, relogio)
          IN  IF user = <<>> \/ senha = <<>>
              THEN /\ resposta' = Resposta("criar_usuario", args, FALSE, "campos")
                   /\ UNCHANGED << usuarios, arquivo_usuarios, logs, auditoria >>
              ELSE IF senha # senha2
              THEN /\ resposta' = Resposta("criar_usuario", args, FALSE, "senhas")
                   /\ UNCHANGED << usuarios, arquivo_usuarios, logs, auditoria >>
              ELSE /\ Contas(r)
                   /\ auditoria' = IF r.ok
                                   THEN registrar_auditoria(auditoria, sessao.usuario,
                                            "CRIAR_USUARIO", Detalhes("Criou usuario", user, ""),
                                            relogio)
                                   ELSE auditoria
                   /\ resposta' = Resposta("criar_usuario", args, r.ok, r.valor)
    /\ UNCHANGED << criterios_qualidade, criterios_banco, janelas, sessao >>
    /\ UNCHANGED livro

\* v014 dialog_editar_usuario.salvar, for a user the list shows an edit button for
Salvar ==
    /\ versao = "v014"
    /\ sessao.ativa /\ sessao.tela = "tela_gestao_usuarios"
    /\ resposta.ordem < MaxChamadas
    /\ \E username \in DOMAIN usuarios \ {Admin}, nivel \in NiveisDigitados,
          ativo \in BOOLEAN, senha \in {<<>>, SenhaBoa}, sal \in Sais :
          LET r == atualizar_usuario(usuarios, username, "Nome", nivel, ativo, senha, sal) IN
          /\ Contas(r)
          /\ auditoria' = IF r.ok
                          THEN registrar_auditoria(auditoria, sessao.usuario, "EDITAR_USUARIO",
                                   Detalhes("Editou usuario", username, ""), relogio)
                          ELSE auditoria
          /\ resposta' = Resposta("editar_usuario",
                                  Args(username, username, senha, nivel, ""),
                                  r.ok, r.valor)
    /\ UNCHANGED << criterios_qualidade, criterios_banco, janelas, sessao >>
    /\ UNCHANGED livro

\* v014 TelaPrincipal.deletar_usuario, confirmed, for a user the list shows a
\* delete button for
DeletarUsuario ==
    /\ versao = "v014"
    /\ sessao.ativa /\ sessao.tela = "tela_gestao_usuarios"
    /\ resposta.ordem < MaxChamadas
    /\ \E username \in DOMAIN usuarios \ {Admin} :
          LET r == deletar_usuario(usuarios, username) IN
          /\ Contas(r)
          /\ auditoria' = IF r.ok
                          THEN registrar_auditoria(auditoria, sessao.usuario, "DELETAR_USUARIO",
                                   Detalhes("Deletou usuario", username, ""), relogio)
                          ELSE auditoria
          /\ resposta' = Resposta("excluir_usuario", Args(username, <<>>, <<>>, "", ""), r.ok, r.valor)
    /\ UNCHANGED << criterios_qualidade, criterios_banco, janelas, sessao >>
    /\ UNCHANGED livro

\* v0142 criar_novo_usuario.salvar_usuario
SalvarUsuario ==
    /\ versao = "v0142"
    /\ sessao.ativa /\ sessao.tela = "tela_gestao_usuarios"
    /\ resposta.ordem < MaxChamadas
    /\ \E usuario_bruto \in NomesNovos, senha \in SenhasNovas,
          nivel \in NiveisDigitados, sal \in Sais :
          LET usuario == Strip(usuario_bruto)
              args == Args(usuario, <<>>, senha, nivel, "")
              r == criar_usuario(versao, usuarios, usuario, senha, "Nome", nivel, sal, relogio)
          IN  IF usuario = <<>> \/ senha = <<>>
              THEN /\ resposta' = Resposta("criar_usuario", args, FALSE, "campos")
                   /\ UNCHANGED << usuarios, arquivo_usuarios, logs >>
              ELSE IF Len(senha) < 4
              THEN /\ resposta' = Resposta("criar_usuario", args, FALSE, "senha curta")
                   /\ UNCHANGED << usuarios, arquivo_usuarios, logs >>
              ELSE /\ Contas(r)
                   /\ resposta' = Resposta("criar_usuario", args, r.ok, r.valor)
    /\ UNCHANGED << criterios_qualidade, criterios_banco, janelas, sessao, auditoria >>
    /\ UNCHANGED livro

\* v0142 TelaPrincipal.editar_usuario.salvar_edicao: editar_usuario, then
\* redefinir_senha under the new name when a password was typed
SalvarEdicao ==
    /\ versao = "v0142"
    /\ sessao.ativa /\ sessao.tela = "tela_gestao_usuarios"
    /\ resposta.ordem < MaxChamadas
    /\ \E antigo \in DOMAIN usuarios, nivel \in NiveisDigitados, ativo \in BOOLEAN,
          nova_senha \in {<<>>, SenhaCurta, SenhaBoa}, sal \in Sais :
       \E novo_bruto \in NomesNovos \cup {antigo} :
          LET usuario_novo == Strip(novo_bruto)
              args == Args(antigo, usuario_novo, nova_senha, nivel, "")
              e == editar_usuario(usuarios, antigo, usuario_novo, "Nome", nivel, ativo, relogio)
              s == redefinir_senha(e.usuarios, usuario_novo, nova_senha, sal)
          IN  IF usuario_novo = <<>>
              THEN /\ resposta' = Resposta("editar_usuario", args, FALSE, "campos")
                   /\ UNCHANGED << usuarios, arquivo_usuarios, logs >>
              ELSE IF nova_senha # <<>> /\ Len(nova_senha) < 4
              THEN /\ resposta' = Resposta("editar_usuario", args, FALSE, "senha curta")
                   /\ UNCHANGED << usuarios, arquivo_usuarios, logs >>
              ELSE IF ~e.ok \/ nova_senha = <<>>
              THEN /\ Contas(e)
                   /\ resposta' = Resposta("editar_usuario", args, e.ok, e.valor)
              ELSE /\ usuarios' = s.usuarios
                   /\ arquivo_usuarios' = s.usuarios
                   /\ logs' = logs \o e.linhas \o s.linhas
                   /\ resposta' = Resposta("editar_usuario", args, TRUE, s.valor)
    /\ UNCHANGED << criterios_qualidade, criterios_banco, janelas, sessao, auditoria >>
    /\ UNCHANGED livro

\* v0142 TelaPrincipal.excluir_usuario, confirmed, for a user the list shows
\* a delete button for
ExcluirUsuario ==
    /\ versao = "v0142"
    /\ sessao.ativa /\ sessao.tela = "tela_gestao_usuarios"
    /\ resposta.ordem < MaxChamadas
    /\ \E usuario \in DOMAIN usuarios \ {Admin} :
          LET r == excluir_usuario(usuarios, usuario) IN
          IF usuario = sessao.usuario
          THEN /\ resposta' = Resposta("excluir_usuario", Args(usuario, <<>>, <<>>, "", ""), FALSE,
                                       "proprio usuario")
               /\ UNCHANGED << usuarios, arquivo_usuarios, logs >>
          ELSE /\ Contas(r)
               /\ resposta' = Resposta("excluir_usuario", Args(usuario, <<>>, <<>>, "", ""), r.ok, r.valor)
    /\ UNCHANGED << criterios_qualidade, criterios_banco, janelas, sessao, auditoria >>
    /\ UNCHANGED livro

\* int(entry_capacidade.get()) of the settings form
CapacidadesDigitadas == { <<"2">>, <<"x">> }

\* v014 criar_config_sistema.salvar_sistema on the settings screen
SalvarSistemaNaTela ==
    /\ versao = "v014"
    /\ sessao.ativa /\ sessao.tela = "tela_configuracoes"
    /\ resposta.ordem < MaxChamadas
    /\ \E texto \in CapacidadesDigitadas :
          LET c == float(texto) IN
          /\ config' = IF c.ok THEN [config EXCEPT !.capacidade_caixa = c.valor] ELSE config
          /\ auditoria' = IF c.ok
                          THEN registrar_auditoria(auditoria, sessao.usuario, "ALTERAR_CONFIG",
                                   Detalhes("Sistema", <<>>, ""), relogio)
                          ELSE auditoria
          /\ resposta' = Resposta("salvar_sistema", SemArgs, c.ok,
                                  IF c.ok THEN "Sucesso" ELSE "Erro")
    /\ UNCHANGED << versao, pecas_aprovadas, pecas_reprovadas, caixas_fechadas,
                    caixa_atual, arquivo_pecas, arquivo_caixas, relogio, backups,
                    ensaio, gravacao, copia, persistidos >>
    /\ UNCHANGED << criterios_qualidade, criterios_banco, janelas, usuarios, arquivo_usuarios, sessao, logs >>

\* v0142 criar_config_sistema.salvar_config_sistema on the settings screen:
\* config.json is written and the process re-executes itself
SalvarConfigSistemaNaTela ==
    /\ versao = "v0142"
    /\ sessao.ativa /\ sessao.tela = "tela_configuracoes"
    /\ resposta.ordem < MaxChamadas
    /\ \E texto \in CapacidadesDigitadas, sal \in Sais :
          LET c == float(texto) IN
          IF c.ok
          THEN /\ config' = [config EXCEPT !.capacidade_caixa = c.valor]
               /\ Memoria(carregar_dados(arquivo_pecas, arquivo_caixas, c.valor))
               /\ TelaLogin(sal)
               /\ resposta' = Resposta("salvar_sistema", SemArgs, TRUE, "Sucesso")
          ELSE /\ resposta' = Resposta("salvar_sistema", SemArgs, FALSE, "Erro")
               /\ UNCHANGED << config, pecas_aprovadas, pecas_reprovadas, caixas_fechadas,
                               caixa_atual, usuarios, arquivo_usuarios, sessao, logs >>
    /\ UNCHANGED << versao, arquivo_pecas, arquivo_caixas, relogio, backups, auditoria,
                    ensaio, gravacao, copia, persistidos, criterios_qualidade, criterios_banco, janelas >>

\* Save Criteria with the colours field as it stands
SalvarCriteriosNaTela ==
    \E peso_min \in EntradasNumericas :
        salvar_criterios(peso_min, <<" ", "2">>, <<"1">>, <<"1">>, Verde)

NextAcesso ==
    \/ FazerLogin
    \/ FazerLogout
    \/ Sair
    \/ AbrirTela
    \/ Criar
    \/ Salvar
    \/ DeletarUsuario
    \/ SalvarUsuario
    \/ SalvarEdicao
    \/ ExcluirUsuario
    \/ SalvarSistemaNaTela
    \/ SalvarConfigSistemaNaTela
    \/ SalvarCriteriosNaTela

SpecAcesso == InitAcesso /\ [][NextAcesso]_vars

\* ---------------------------------------------------- claims on access
\* the ranks of the specification: Operator < Supervisor < Administrator
Papeis == {"operador", "supervisor", "administrador"}
Posto(papel) ==
    CASE papel = "operador" -> 1
      [] papel = "supervisor" -> 2
      [] papel = "administrador" -> 3

\* a handler ran in this step
Chamada(op) == resposta'.ordem # resposta.ordem /\ resposta'.op = op

\* C24: the level check of a screen method succeeds exactly when the rank of
\* the session's level is at least the rank of the level asked for, and
\* whenever it succeeds for a level it succeeds for every level of lower or
\* equal rank
C24_Hierarquia ==
    (resposta.op = "abrir_tela" /\ sessao.info_usuario.nivel \in Papeis) =>
        LET nivel == sessao.info_usuario.nivel
            pedido == NivelDaTela(resposta.args.tela)
        IN  /\ resposta.ok <=> Posto(nivel) >= Posto(pedido)
            /\ (versao = "v014" /\ resposta.ok) =>
                  \A menor \in Papeis :
                      Posto(menor) <= Posto(pedido) => requer_permissao(nivel, menor)

\* an administrator was let into a screen that asks for a supervisor
C24_Testemunha ==
    /\ versao = "v014"
    /\ resposta.op = "abrir_tela"
    /\ resposta.ok
    /\ resposta.args.tela = "tela_remover_peca"
    /\ sessao.info_usuario.nivel = "administrador"

Autorizada(tela) ==
    /\ sessao.ativa
    /\ sessao.tela = tela
    /\ sessao.info_usuario.nivel \in Papeis
    /\ Posto(sessao.info_usuario.nivel) >= Posto("administrador")

\* C26: no creation, edit, deletion or password reset of a user and no update
\* of the criteria or of the capacity takes effect unless the session has
\* passed the administrator check of the screen that offers it
C26_SoAdministrador ==
    [][ /\ ((Chamada("criar_usuario") \/ Chamada("editar_usuario")
              \/ Chamada("excluir_usuario"))
            /\ << usuarios', arquivo_usuarios' >> # << usuarios, arquivo_usuarios >>)
              => Autorizada("tela_gestao_usuarios")
        /\ (Chamada("salvar_criterios") /\ criterios_qualidade' # criterios_qualidade)
              => Autorizada("tela_configuracoes")
        /\ (Chamada("salvar_sistema") /\ config' # config)
              => Autorizada("tela_configuracoes")
        /\ (sessao.ativa /\ sessao.tela = "tela_gestao_usuarios")
              => Autorizada("tela_gestao_usuarios")
        /\ (sessao.ativa /\ sessao.tela = "tela_configuracoes")
              => Autorizada("tela_configuracoes") ]_vars

\* an administrator's session created a user
C26_Testemunha ==
    /\ resposta.op = "criar_usuario"
    /\ resposta.ok
    /\ resposta.args.usuario \in DOMAIN usuarios
    /\ sessao.info_usuario.nivel = "administrador"

\* fazer_login handed the name and the password to autenticar in this step
Tentativa ==
    /\ Chamada("fazer_login")
    /\ resposta'.args.usuario # <<>>
    /\ resposta'.args.senha # <<>>

\* the account exists, is active and its stored hash verifies the password
Credenciais(us, usuario, senha) ==
    /\ usuario \in DOMAIN us
    /\ us[usuario].ativo
    /\ checkpw(senha, us[usuario].senha)

\* C27: autenticar returns ok only for an existing, active user whose password
\* verifies against the stored hash; for an unknown user, an inactive user or
\* a wrong password it returns not-ok with no profile and leaves the store as
\* it was, and a success changes only that user's ultimo_login
C27_Autenticacao ==
    [][ Tentativa =>
          LET usuario == resposta'.args.usuario
              senha == resposta'.args.senha
          IN  /\ resposta'.ok <=> Credenciais(usuarios, usuario, senha)
              /\ ~resposta'.ok =>
                    /\ resposta'.perfil = SemPerfil
                    /\ ~sessao'.ativa
                    /\ usuarios' = usuarios
                    /\ arquivo_usuarios' = arquivo_usuarios
              /\ resposta'.ok =>
                    /\ DOMAIN usuarios' = DOMAIN usuarios
                    /\ \A u \in DOMAIN usuarios \ {usuario} : usuarios'[u] = usuarios[u]
                    /\ usuarios'[usuario] = [usuarios[usuario] EXCEPT !.ultimo_login = relogio]
                    /\ arquivo_usuarios' = usuarios'
                    /\ resposta'.perfil = Perfil(usuarios'[usuario])
                    /\ sessao'.usuario = usuario ]_vars

\* an inactive user was turned away although the password was the right one
C27_Testemunha ==
    /\ resposta.op = "fazer_login"
    /\ ~resposta.ok
    /\ resposta.args.usuario = Ana
    /\ Ana \in DOMAIN usuarios
    /\ ~usuarios[Ana].ativo
    /\ checkpw(resposta.args.senha, usuarios[Ana].senha)
    /\ ~sessao.ativa

\* C28: every authentication attempt - success, wrong password, unknown user
\* or inactive user - leaves a log record of that attempt
C28_TentativaRegistrada ==
    [][ Tentativa =>
          \E i \in (Len(logs) + 1)..Len(logs') :
              /\ logs'[i].tipo = "AUTH"
              /\ logs'[i].usuario = resposta'.args.usuario ]_vars

\* C29: after any sequence of creations, edits, renames, password resets and
\* deletions of users the account 'admin' is still in the store
C29_AdminPermanece == Admin \in DOMAIN usuarios /\ Admin \in DOMAIN arquivo_usuarios

\* criar_usuario was handed the fields of the dialog in this step
Criacao ==
    /\ Chamada("criar_usuario")
    /\ resposta'.valor \notin {"campos", "senhas"}

\* C30: criar_usuario fails for a name that is taken, for a password shorter
\* than 4 characters and for a level outside the allowed ones, each with its
\* own message, and then the store and usuarios.json are unchanged; on success
\* exactly one new active user with the given level is added and no other
\* user changes
C30_CriarUsuario ==
    [][ Criacao =>
          LET a == resposta'.args
              existe == a.usuario \in DOMAIN usuarios
              curta == Len(a.senha) < 4
              invalido == a.nivel \notin Papeis
          IN  /\ existe => ~resposta'.ok
              /\ curta => ~resposta'.ok
              /\ invalido => ~resposta'.ok
              /\ (existe /\ ~curta /\ ~invalido) => resposta'.valor = "ja existe"
              /\ (~existe /\ curta /\ ~invalido) => resposta'.valor = "senha curta"
              /\ (~existe /\ ~curta /\ invalido) => resposta'.valor = "nivel invalido"
              /\ ~resposta'.ok =>
                    /\ usuarios' = usuarios
                    /\ arquivo_usuarios' = arquivo_usuarios
              /\ resposta'.ok =>
                    /\ ~existe
                    /\ DOMAIN usuarios' = DOMAIN usuarios \cup {a.usuario}
                    /\ \A u \in DOMAIN usuarios : usuarios'[u] = usuarios[u]
                    /\ usuarios'[a.usuario].ativo
                    /\ usuarios'[a.usuario].nivel = a.nivel
                    /\ checkpw(a.senha, usuarios'[a.usuario].senha)
                    /\ arquivo_usuarios' = usuarios' ]_vars

\* a creation was refused for its level, and the store holds who it held
C30_Testemunha ==
    /\ resposta.op = "criar_usuario"
    /\ ~resposta.ok
    /\ resposta.valor = "nivel invalido"
    /\ resposta.args.usuario \notin DOMAIN usuarios
    /\ arquivo_usuarios = usuarios

\* -------------------------------------------- claims on the audit of parts
\* the documents hold the ledger that is in memory
Persistido(bd, arq_pecas, arq_caixas) ==
    LET s == salvar_dados(bd, arq_pecas, arq_caixas)
    IN  arq_pecas = s.arquivo_pecas /\ arq_caixas = s.arquivo_caixas

\* a record or a remove returned in this step
Retornou(retorno) ==
    /\ gravacao'.ordem # gravacao.ordem \/ gravacao.etapa # "ocioso"
    /\ gravacao'.etapa = "ocioso"
    /\ gravacao'.retorno = retorno

\* C31: every successful record and every successful remove appends exactly
\* one audit entry, after the ledger has been persisted; a failed record and
\* a failed remove append none
C31_AuditoriaAposGravar ==
    [][ versao = "v014" =>
          /\ Retornou("ok") =>
                /\ Len(auditoria') = Len(auditoria) + 1
                /\ SubSeq(auditoria', 1, Len(auditoria)) = auditoria
                /\ auditoria'[Len(auditoria')].acao \in {"CADASTRAR_PECA", "REMOVER_PECA"}
                /\ Persistido(BDAtual', arquivo_pecas', arquivo_caixas')
          /\ ~Retornou("ok") => auditoria' = auditoria ]_vars

\* ------------------------------------- claims on the message of cadastrar
\* cadastrar: the container number and the free slots shown for an approved
\* part, read from db.caixa_atual once adicionar_peca has returned
MensagemAprovada(bd) ==
    [ caixa |-> bd.caixa_atual.numero,
      vagas |-> vagas_disponiveis(bd.caixa_atual) ]

\* the containers of bd that hold the part id, archive first
CaixasCom(bd, id) ==
    SelectSeq(Append(bd.caixas_fechadas, bd.caixa_atual),
              LAMBDA c : \E i \in 1..Len(c.pecas) : c.pecas[i] = id)

\* an approved part entered the ledger in this step
Aprovou ==
    /\ AdicionarPeca \/ AdicionarLote
    /\ Len(pecas_aprovadas') = Len(pecas_aprovadas) + 1

\* C32: for an approved submission the container number and remaining slots
\* reported are those of the container that holds the submitted part, also
\* when that part fills and closes the container
C32_CaixaInformada ==
    [][ Aprovou =>
          LET id  == pecas_aprovadas'[Len(pecas_aprovadas')].id_peca
              com == CaixasCom(BDAtual', id)
              m   == MensagemAprovada(BDAtual')
          IN  /\ com # <<>>
              /\ com[Len(com)].numero = m.caixa
              /\ vagas_disponiveis(com[Len(com)]) = m.vagas ]_vars

\* ------------------------------------ claims on the numbering of containers
\* C33: the closed containers are numbered 1..n in archive order and the
\* current container has number n + 1, n being the number of closed ones
C33_NumeracaoDasCaixas ==
    /\ \A i \in 1..Len(caixas_fechadas) : caixas_fechadas[i].numero = i
    /\ caixa_atual.numero = Len(caixas_fechadas) + 1

\* two containers were closed, a third one is being filled and the ledger
\* has been saved
C33_Testemunha ==
    /\ Len(caixas_fechadas) = 2
    /\ caixa_atual.numero = 3
    /\ caixa_atual.pecas # <<>>
    /\ arquivo_caixas.existe

\* ------------------------------------------- the criteria a validation uses
\* parts recorded in a run in which the criteria are edited
MaxPecasUso == 1

\* tela_cadastrar_peca.cadastrar in the session that edits the criteria
CadastrarNaSessao ==
    /\ sessao.ativa
    /\ Len(pecas_aprovadas) + Len(pecas_reprovadas) < MaxPecasUso
    /\ AdicionarPeca

\* tela_editar_peca in the same session (v0142)
EditarNaSessao ==
    /\ sessao.ativa
    /\ EditarPeca

\* criteria updates in that run
MaxEdicoesUso == 2

\* salvar_criterios, MaxEdicoesUso times at most
SalvarNaSessao ==
    /\ resposta.ordem < MaxEdicoesUso
    /\ SalvarCriterios

NextUso == SalvarNaSessao \/ CadastrarNaSessao \/ EditarNaSessao

SpecUso == InitCriterios /\ [][NextUso]_vars

\* the parts of the ledger that this step validated: the one recorded, or
\* the one whose fields were edited
Validadas ==
    LET antes == pecas_aprovadas \o pecas_reprovadas
        depois == pecas_aprovadas' \o pecas_reprovadas'
    IN  { depois[i] : i \in { k \in 1..Len(depois) :
                                \A j \in 1..Len(antes) : antes[j] # depois[k] } }

\* C34: after a criteria update succeeded, every later validation by record
\* or edit in the same run uses the new criteria
C34_CriteriosNovos ==
    [][ (CadastrarNaSessao \/ EditarNaSessao) =>
            \A p \in Validadas : p = validar(p, criterios_qualidade) ]_vars

\* ------------------------------------------------------- gerar_relatorio
\* days of the month in which parts are inspected, and parts in a report
MaxDia == 2
MaxPecasRelatorio == 3

\* datetime.now().hour of the inspections
Horas == {6, 14}

\* Peca.obter_turno_atual
obter_turno_atual(hora) ==
    IF 6 <= hora /\ hora < 14 THEN "Manha"
    ELSE IF 14 <= hora /\ hora < 22 THEN "Tarde"
    ELSE "Noite"

\* strftime("%Y-%m-%d") of a day of the month, the year and month left out,
\* and strptime(texto, "%Y-%m-%d"), which raises ValueError on other texts
strftime(dia) == << Digitos[dia] >>
strptime(texto) ==
    IF texto # <<>> /\ \A i \in 1..Len(texto) : EhDigito(texto[i])
    THEN [ok |-> TRUE, valor |-> Inteiro(texto)]
    ELSE [ok |-> FALSE, valor |-> 0]

\* Peca.__init__ for the n-th part, inspected on a day at an hour: the day,
\* the hour and the shift are stamped on it
PecaInspecionada(n, usuario, peso, dia, hora) ==
    [ id_peca |-> NormalizarId(<<"p", Digitos[n]>>),
      peso |-> peso,
      cor |-> NormalizarCor(<<"A", "z", "u", "l">>),
      comprimento |-> 15,
      usuario |-> usuario,
      aprovada |-> FALSE,
      motivos_reprovacao |-> <<>>,
      timestamp |-> [data |-> strftime(dia), hora |-> hora],
      data_inspecao |-> strftime(dia),
      turno |-> obter_turno_atual(hora) ]

\* v014 BancoDados.filtrar_pecas_por_data: a part whose date cannot be
\* compared is left out
filtrar_pecas_por_data(pecas, data_inicio, data_fim) ==
    IF data_inicio = <<>> /\ data_fim = <<>> THEN pecas
    ELSE SelectSeq(pecas, LAMBDA p :
            LET data_peca == strptime(p.timestamp.data)
                dt_inicio == strptime(data_inicio)
                dt_fim == strptime(data_fim)
            IN  /\ data_peca.ok
                /\ data_inicio # <<>> =>
                      dt_inicio.ok /\ ~(data_peca.valor < dt_inicio.valor)
                /\ data_fim # <<>> =>
                      dt_fim.ok /\ ~(data_peca.valor >= dt_fim.valor + 1))

\* v0142 BancoDados.buscar_pecas_por_filtro with status and turno left at
\* None: the dates filter only when both are given
buscar_pecas_por_filtro(todas_pecas, data_inicio, data_fim, usuario) ==
    LET datas == data_inicio # <<>> /\ data_fim # <<>>
        data_i == strptime(data_inicio)
        data_f == strptime(data_fim)
        erro == datas /\ (~data_i.ok \/ ~data_f.ok
                          \/ \E i \in 1..Len(todas_pecas) :
                                ~strptime(todas_pecas[i].data_inspecao).ok)
    IN  [ ok |-> ~erro,
          pecas |-> IF erro THEN <<>>
                    ELSE SelectSeq(todas_pecas, LAMBDA peca :
                            /\ datas =>
                                  LET data_peca == strptime(peca.data_inspecao)
                                  IN  data_i.valor <= data_peca.valor
                                      /\ data_peca.valor <= data_f.valor
                            /\ usuario # "" => peca.usuario = usuario) ]

\* round(aprovadas / total * 100, 2) in hundredths; with the totals of this
\* model no quotient lies halfway between two hundredths
taxa_aprovacao(aprovadas, total_pecas) ==
    IF total_pecas > 0
    THEN (aprovadas * 20000 + total_pecas) \div (2 * total_pecas)
    ELSE 0

\* the dict estatisticas_turno built from the parts of a report
estatisticas_turno(pecas) ==
    LET com(turno, aprovada) ==
            Cardinality({ i \in 1..Len(pecas) :
                            pecas[i].turno = turno /\ pecas[i].aprovada = aprovada })
    IN  [ turno \in { pecas[i].turno : i \in 1..Len(pecas) } |->
            [ aprovadas |-> com(turno, TRUE),
              reprovadas |-> com(turno, FALSE),
              total |-> com(turno, TRUE) + com(turno, FALSE) ] ]

\* no report: gerar_relatorio raised
SemRelatorio ==
    [ ok |-> FALSE, total_pecas_aprovadas |-> 0, total_pecas_reprovadas |-> 0,
      total_pecas_inspecionadas |-> 0, taxa_aprovacao |-> 0,
      estatisticas_turno |-> <<>> ]

\* BancoDados.gerar_relatorio; v014 has no usuario parameter. 'percentual_cheio'
\* divides by the capacity of the current container
gerar_relatorio(v, bd, data_inicio, data_fim, usuario) ==
    LET filtra == data_inicio # <<>> \/ data_fim # <<>> \/ usuario # ""
        busca == buscar_pecas_por_filtro(bd.pecas_aprovadas \o bd.pecas_reprovadas,
                                         data_inicio, data_fim, usuario)
        aprovadas ==
            IF v = "v014"
            THEN filtrar_pecas_por_data(bd.pecas_aprovadas, data_inicio, data_fim)
            ELSE IF filtra THEN SelectSeq(busca.pecas, LAMBDA p : p.aprovada)
            ELSE bd.pecas_aprovadas
        reprovadas ==
            IF v = "v014"
            THEN filtrar_pecas_por_data(bd.pecas_reprovadas, data_inicio, data_fim)
            ELSE IF filtra THEN SelectSeq(busca.pecas, LAMBDA p : ~p.aprovada)
            ELSE bd.pecas_reprovadas
        todas_pecas ==
            IF v = "v014" THEN aprovadas \o reprovadas
            ELSE IF filtra THEN busca.pecas
            ELSE bd.pecas_aprovadas \o bd.pecas_reprovadas
        total_pecas ==
            IF v = "v014" THEN Len(aprovadas) + Len(reprovadas) ELSE Len(todas_pecas)
    IN  IF (v = "v0142" /\ filtra /\ ~busca.ok) \/ bd.caixa_atual.capacidade = 0
        THEN SemRelatorio
        ELSE [ ok |-> TRUE,
               total_pecas_aprovadas |-> Len(aprovadas),
               total_pecas_reprovadas |-> Len(reprovadas),
               total_pecas_inspecionadas |-> total_pecas,
               taxa_aprovacao |-> taxa_aprovacao(Len(aprovadas), total_pecas),
               estatisticas_turno |-> estatisticas_turno(todas_pecas) ]

\* the ledger in memory is bd
Dado(bd) ==
    /\ pecas_aprovadas = bd.pecas_aprovadas
    /\ pecas_reprovadas = bd.pecas_reprovadas
    /\ caixas_fechadas = bd.caixas_fechadas
    /\ caixa_atual = bd.caixa_atual

\* what may be asked of the report: no date or a day, no operator or one
FiltrosData == {<<>>} \cup { strftime(d) : d \in 1..MaxDia }
FiltrosUsuario == {"", "ana", "bia"}

\* the operator who inspected the n-th part
OperadorDe(n) == IF n % 2 = 1 THEN "ana" ELSE "bia"

\* no report asked yet
SemPedido ==
    [ feito |-> FALSE, data_inicio |-> <<>>, data_fim |-> <<>>, usuario |-> "",
      relatorio |-> SemRelatorio ]

\* the ledger after those of the first n parts that were inspected are
\* recorded, one adicionar_peca each: a part of 100 g passes, one of 120 g
\* fails
RECURSIVE Inspecionadas(_, _, _)
Inspecionadas(n, estado, capacidade) ==
    IF n = 0 THEN BD(<<>>, <<>>, <<>>, NovaCaixa(1, capacidade))
    ELSE LET bd == Inspecionadas(n - 1, estado, capacidade) IN
         IF estado[n].lista = "ausente" THEN bd
         ELSE adicionar_peca(bd,
                  PecaInspecionada(n, OperadorDe(n),
                                   IF estado[n].lista = "aprovada" THEN 100 ELSE 120,
                                   estado[n].dia, estado[n].hora),
                  capacidade, 1, CriteriosPadrao).bd

\* a ledger of up to MaxPecasRelatorio parts inspected on some days and shifts,
\* under a configured capacity that was never validated
InitRelatorio ==
    /\ versao \in Versoes
    /\ \E c \in 0..MaxCapacidade :
        \E estado \in [1..MaxPecasRelatorio ->
                        [lista : {"ausente", "aprovada", "reprovada"},
                         dia : 1..MaxDia, hora : Horas]] :
          /\ \A n \in 1..MaxPecasRelatorio :
                estado[n].lista = "ausente" =>
                    estado[n].dia = 1 /\ estado[n].hora = 6
          /\ config = [capacidade_caixa |-> c]
          /\ Dado(Inspecionadas(MaxPecasRelatorio, estado, c))
    /\ arquivo_pecas = Ausente
    /\ arquivo_caixas = Ausente
    /\ relogio = 1
    /\ backups = SemBackups
    /\ auditoria = <<>>
    /\ gravacao = Ociosa("nenhum", 0)
    /\ copia = Espera
    /\ persistidos = {<< Ausente, Ausente >>}
    /\ ensaio = SemPedido
    /\ ContasIniciais

\* TelaPrincipal.tela_relatorios.gerar -> BancoDados.gerar_relatorio
GerarRelatorio ==
    /\ ~ensaio.feito
    /\ \E data_inicio \in FiltrosData, data_fim \in FiltrosData,
          usuario \in FiltrosUsuario :
          ensaio' = [ feito |-> TRUE, data_inicio |-> data_inicio,
                      data_fim |-> data_fim, usuario |-> usuario,
                      relatorio |-> gerar_relatorio(versao, BDAtual, data_inicio,
                                                    data_fim, usuario) ]
    /\ UNCHANGED << versao, config, pecas_aprovadas, pecas_reprovadas,
                    caixas_fechadas, caixa_atual, arquivo_pecas, arquivo_caixas,
                    relogio, backups, auditoria, gravacao, copia, persistidos,
                    contas >>

NextRelatorio == GerarRelatorio

SpecRelatorio == InitRelatorio /\ [][NextRelatorio]_vars

\* the sum of one count over the shifts of a report
RECURSIVE SomaTurnos(_, _, _)
SomaTurnos(estatisticas, turnos, campo) ==
    IF turnos = {} THEN 0
    ELSE LET t == CHOOSE x \in turnos : TRUE
         IN  estatisticas[t][campo] + SomaTurnos(estatisticas, turnos \ {t}, campo)

\* the counts of a report that was produced add up
RelatorioCoerente(r) ==
    LET e == r.estatisticas_turno IN
    /\ r.total_pecas_inspecionadas = r.total_pecas_aprovadas + r.total_pecas_reprovadas
    /\ r.total_pecas_inspecionadas = 0 => r.taxa_aprovacao = 0
    /\ SomaTurnos(e, DOMAIN e, "aprovadas") = r.total_pecas_aprovadas
    /\ SomaTurnos(e, DOMAIN e, "reprovadas") = r.total_pecas_reprovadas
    /\ SomaTurnos(e, DOMAIN e, "total") = r.total_pecas_inspecionadas

\* C35: for every ledger state and every date/operator filter the report has
\* total = approved + rejected, an approval rate of 0 when the total is 0, and
\* per-shift counts that add up to the overall counts
C35_RelatorioSoma ==
    ensaio.feito => ensaio.relatorio.ok /\ RelatorioCoerente(ensaio.relatorio)

\* ------------------------------------------------ claims on the user store
\* the roles a user may have
NiveisPermitidos == {"operador", "supervisor", "administrador"}

\* C36: after any sequence of create and edit user operations every user in
\* the store has a role from the allowed set: edit refuses a role outside the
\* set just as create does
C36_NiveisPermitidos ==
    \A u \in DOMAIN usuarios : usuarios[u].nivel \in NiveisPermitidos

\* ------------------------------------- claims on the session and the store
\* the record of the session's user in the store passes the check of tela
PassaPeloRegistro(tela) ==
    /\ sessao.usuario \in DOMAIN usuarios
    /\ usuarios[sessao.usuario].ativo
    /\ Permitido(versao, Perfil(usuarios[sessao.usuario]), tela)

\* C37: a permission check made during a session agrees with the user's
\* record in the store at the time of the check: once the role was lowered or
\* the account deactivated or deleted, the open session no longer passes a
\* check that requires the former role
C37_PermissaoAtual ==
    [][ (Chamada("abrir_tela") /\ resposta'.ok) =>
            PassaPeloRegistro(resposta'.args.tela) ]_vars

\* ------------------------------------------------- the session timeout (v014)
\* config 'timeout_sessao_minutos', and the minutes a run is followed for
TimeoutSessao == 1
MaxMinutos == 4

\* a run of v014 from the login screen
InitSessao ==
    /\ InitAcesso
    /\ versao = "v014"

\* TelaPrincipal.resetar_timeout, called at the head of every screen method of
\* the open session
ResetarTimeout ==
    /\ versao = "v014"
    /\ sessao.ativa
    /\ janelas' = [janelas EXCEPT ![Len(janelas)].ultima_atividade = relogio]
    /\ UNCHANGED << criterios_qualidade, criterios_banco, usuarios,
                    arquivo_usuarios, sessao, logs, resposta, auditoria >>
    /\ UNCHANGED livro

\* a minute passes
Minuto ==
    /\ relogio < MaxMinutos
    /\ relogio' = relogio + 1
    /\ UNCHANGED << versao, config, pecas_aprovadas, pecas_reprovadas,
                    caixas_fechadas, caixa_atual, arquivo_pecas, arquivo_caixas,
                    backups, auditoria >>
    /\ UNCHANGED outras

\* TelaPrincipal.verificar_timeout run by root.after for the k-th TelaPrincipal
\* built in this run, and the fazer_logout it calls, sim being the answer to
\* "Deseja realmente sair do sistema?": within the timeout the callback is
\* scheduled again; past it nothing is scheduled, and on yes the logout is
\* audited under self.usuario, every widget of the root window is destroyed
\* and the login screen is built
verificar_timeout(k, sim) ==
    LET janela == janelas[k]
        tempo_inativo == relogio - janela.ultima_atividade
    IN  /\ janela.agendada
        /\ IF tempo_inativo > TimeoutSessao
           THEN /\ janelas' = [janelas EXCEPT ![k].agendada = FALSE]
                /\ IF sim
                   THEN /\ auditoria' = registrar_auditoria(auditoria, janela.usuario,
                                            "LOGOUT", Detalhes("Logout manual", <<>>, ""),
                                            relogio)
                        /\ \E sal \in Sais : TelaLogin(sal)
                   ELSE UNCHANGED << auditoria, sessao, usuarios, arquivo_usuarios, logs >>
           ELSE UNCHANGED << janelas, auditoria, sessao, usuarios, arquivo_usuarios, logs >>
        /\ UNCHANGED << criterios_qualidade, criterios_banco, resposta >>
        /\ UNCHANGED livro

VerificarTimeout ==
    /\ versao = "v014"
    /\ \E k \in 1..Len(janelas), sim \in BOOLEAN : verificar_timeout(k, sim)

NextSessao ==
    \/ FazerLogin
    \/ FazerLogout
    \/ ResetarTimeout
    \/ Minuto
    \/ VerificarTimeout

SpecSessao == InitSessao /\ [][NextSessao]_vars

\* the event loop runs every callback that is scheduled
SpecSessaoJusta == SpecSessao /\ WF_vars(VerificarTimeout)

\* the open session has been without activity for longer than the timeout
Inativa ==
    /\ sessao.ativa
    /\ relogio - janelas[Len(janelas)].ultima_atividade > TimeoutSessao

\* C38: a session without activity for longer than the timeout is eventually
\* ended and the login screen shown, and the periodic check never stops
\* running while a session is open
C38_SessaoExpira ==
    /\ [](sessao.ativa => janelas[Len(janelas)].agendada)
    /\ Inativa ~> ~sessao.ativa

\* C39: a session is expired only by its own timeout check: the callback of
\* an earlier, logged-out session never ends a later session and never writes
\* a logout audit entry
C39_SoAPropriaSessao ==
    [][ \A k \in 1..Len(janelas) :
          ( /\ Len(janelas') = Len(janelas)
            /\ janelas[k].agendada /\ ~janelas'[k].agendada
            /\ sessao' # sessao \/ auditoria' # auditoria )
          => (sessao.ativa /\ k = Len(janelas)) ]_vars

\* C40: editar_usuario, also when it renames, changes only the username, the
\* display name, the role and the active flag: the password hash, the
\* creation date and the last login are carried over, and every other
\* user's record is untouched
C40_SoOsCamposEditados ==
    [][ ( /\ versao = "v0142"
          /\ Chamada("editar_usuario")
          /\ resposta'.ok
          /\ resposta'.args.senha = <<>> ) =>
            LET antigo == resposta'.args.usuario
                novo == resposta'.args.usuario_novo
            IN  /\ DOMAIN usuarios' = (DOMAIN usuarios \ {antigo}) \cup {novo}
                /\ usuarios'[novo].senha = usuarios[antigo].senha
                /\ usuarios'[novo].data_criacao = usuarios[antigo].data_criacao
                /\ usuarios'[novo].ultimo_login = usuarios[antigo].ultimo_login
                /\ \A u \in DOMAIN usuarios \ {antigo} : usuarios'[u] = usuarios[u] ]_vars

====
